---------------------------- MODULE Spec2Model ----------------------------
(***************************************************************************)
(* Behavioural simulation platform (forge_platform): the control-register  *)
(* bank, the network control-register interface with its write latency,    *)
(* the CloudCompile (passthrough) and Oscilloscope (sampling) simulators    *)
(* and the SimulationBackend orchestrator, as cooperative tasks over a     *)
(* virtual clock.                                                          *)
(*                                                                         *)
(* Register values are Python integers.  A non-negative integer is         *)
(* modelled by the set of the positions of its 1 bits, so that             *)
(*     v & 0xFFFFFFFF   is  v \cap 0..31                                   *)
(*     (v >> k) & 1     is  k \in v                                        *)
(*     v & ~(0x7 << 29) is  v \ {29,30,31}                                 *)
(*     v | (1 << k)     is  v \cup {k}                                     *)
(* and two integers are equal iff their bit sets are.  Virtual time is in  *)
(* nanoseconds; a task is suspended on exactly one Timer, and the clock    *)
(* advances only when no Timer is due.                                     *)
(***************************************************************************)
EXTENDS Integers, Sequences, FiniteSets, TLC

VARIABLES
    now,                \* virtual time (ns), cocotb.utils.get_sim_time
    slots,              \* NetworkCRInterface.slots: slot -> ControlRegisterBank
    network_busy,       \* NetworkCRInterface.network_busy
    total_network_ops,  \* NetworkCRInterface.total_network_ops
    calls,              \* the register-write coroutines started so far, in issue order
    simulators,         \* SimulationBackend.simulators: slot -> simulator class name
    cc,                 \* state of each CloudCompileSimulator, by slot
    osc,                \* state of each OscilloscopeSimulator, by slot
    dut,                \* the device under test: its Control ports and its signals
    config,             \* the configuration object handed to the backend
    routing_matrix,     \* SimulationBackend.routing_matrix
    setup,              \* SimulationBackend.setup(): setup_complete and its position
    runs,               \* the OscilloscopeSimulator.run coroutines started so far
    requests,           \* history: the calls made on a simulator by the test body
    script              \* position of the scripted test body, where a scenario has one

netVars   == <<slots, network_busy, total_network_ops>>
beVars    == <<simulators, cc, config, routing_matrix, setup>>
scopeVars == <<osc, runs, requests>>
vars == <<now, slots, network_busy, total_network_ops, calls, simulators, cc,
          osc, dut, config, routing_matrix, setup, runs, requests, script>>

-----------------------------------------------------------------------------
(* Bounds of the model *)

\* Register-write calls (set_control_register / set_forge_control) issued in a run.
MaxCalls == 2
\* Calls of SimulationBackend.run in a run.
MaxRuns == 1
\* Calls made directly on a simulator (add_external_channel, stop_capture) in a run.
MaxRequests == 2
\* Calls of SimulationBackend.run made back to back by one test body.
MaxBackToBack == 2

(* Program constants *)

\* NetworkCRInterface.__init__(default_delay_ms = 200.0)
DefaultDelayMs == 200
\* set_register / get_register accept reg in 0..15
MaxReg == 15
\* CloudCompileSimulator: await Timer(1, units='ns') after a device write
PropagationNs == 1

Registers == 0..MaxReg
NsPerMs == 1000000

-----------------------------------------------------------------------------
(* Integers as bit sets *)

Bit(k) == {k}
Zero == {}
\* (mutant) the value is stored as given
Mask32None(v) == v

\* value & 0xFFFFFFFF
Mask32(v) == v \cap (0..31)
\* bool((v >> k) & 1)
TestBit(v, k) == k \in v

\* The values named in the tests and in the spec
FORGE_READY   == {31}            \* 0x80000000
USER_ENABLED  == {31, 30}        \* 0xC0000000
FULLY_ENABLED == {31, 30, 29}    \* 0xE0000000
Wide33        == {32, 0}         \* 0x1_0000_0001, wider than a register

\* Optional[float]: None is <<>>, a given value d is <<d>>
None == <<>>
Some(d) == <<d>>

-----------------------------------------------------------------------------
(* ControlRegisterBank *)

\* ControlRegisterBank(slot): registers {i: 0 for i in range(16)}, empty access_log.
\* (The entries' 'timestamp' is datetime.now(), wall-clock time outside the
\* virtual clock, and is left out.)
NewBank(slot) ==
    [slot |-> slot, registers |-> [i \in Registers |-> Zero], access_log |-> <<>>]

\* the range check of set_register and get_register: raises ValueError when false
RegInRange(reg) == ~(reg < 0 \/ reg > MaxReg)

\* (mutant) the write also clears the register that follows
BankSetRegisterClearsNext(bank, reg, value) ==
    [bank EXCEPT
        !.registers[reg] = Mask32(value),
        !.registers[(reg + 1) % (MaxReg + 1)] = Zero,
        !.access_log = Append(@, [type |-> "write", register |-> reg,
                                  old_value |-> bank.registers[reg],
                                  new_value |-> value])]

\* set_register past its range check
BankSetRegister(bank, reg, value) ==
    [bank EXCEPT
        !.registers[reg] = Mask32(value),
        !.access_log = Append(@, [type |-> "write", register |-> reg,
                                  old_value |-> bank.registers[reg],
                                  new_value |-> value])]

\* get_register past its range check
BankGetRegister(bank, reg) == bank.registers[reg]

\* get_forge_control_bits
GetForgeControlBits(bank) ==
    LET cr0 == bank.registers[0]
    IN  [forge_ready |-> TestBit(cr0, 31),
         user_enable |-> TestBit(cr0, 30),
         clk_enable  |-> TestBit(cr0, 29)]


-----------------------------------------------------------------------------
(* NetworkCRInterface *)

\* The part of the state a register-write coroutine reads and writes.
World ==
    [slots |-> slots, network_busy |-> network_busy,
     total_network_ops |-> total_network_ops, cc |-> cc, dut |-> dut,
     config |-> config]

SetWorld(w) ==
    /\ slots' = w.slots
    /\ network_busy' = w.network_busy
    /\ total_network_ops' = w.total_network_ops
    /\ cc' = w.cc
    /\ dut' = w.dut
    /\ config' = w.config

\* initial_values is a dict: its items in insertion order, as <<reg, value>> pairs.
\* The loop of add_slot; a set_register that raises ends it, the bank keeping the
\* writes made so far.
RECURSIVE ApplyInitialValues(_, _)
ApplyInitialValues(bank, items) ==
    IF items = <<>> THEN bank
    ELSE IF ~RegInRange(Head(items)[1]) THEN bank
    ELSE ApplyInitialValues(BankSetRegister(bank, Head(items)[1], Head(items)[2]),
                            Tail(items))

\* (mutant) an existing bank is kept and the initial values are written into it
NetAddSlotKeepBank(ss, slot, initial_values) ==
    (slot :> ApplyInitialValues(IF slot \in DOMAIN ss THEN ss[slot] ELSE NewBank(slot),
                                initial_values)) @@ ss

\* add_slot: a fresh bank replaces whatever bank the slot had, then the initial
\* values are written through set_register.
NetAddSlot(ss, slot, initial_values) ==
    (slot :> ApplyInitialValues(NewBank(slot), initial_values)) @@ ss

\* (mutant) a call given no delay is not delayed at all
EffectiveDelayNoDefault(delay_ms) ==
    IF delay_ms /= None THEN delay_ms[1] ELSE 0

\* the delay set_control_register waits: delay_ms if not None, else the default
EffectiveDelayMs(delay_ms) ==
    IF delay_ms /= None THEN delay_ms[1] ELSE DefaultDelayMs

\* (mutant) every positive delay lasts the default delay
DelayNsFixed(delay) == DefaultDelayMs * NsPerMs

\* delay_ns = int(delay * 1e6), for a delay of whole milliseconds
DelayNs(delay) == delay * NsPerMs

\* (mutant) a write that starts while another is in flight is not counted
NetSetBeginCountOnce(w) ==
    [w EXCEPT !.network_busy = TRUE,
              !.total_network_ops = IF w.network_busy THEN @ ELSE @ + 1]

\* set_control_register, from its entry to its Timer: lines 122-127
NetSetBegin(w) ==
    [w EXCEPT !.network_busy = TRUE, !.total_network_ops = @ + 1]

\* (mutant) the register update is lost
NetSetFinishDropped(w, slot, register, value) ==
    [w EXCEPT !.network_busy = FALSE]

\* (mutant) the banks share one registers dict: a write shows in every slot
NetSetFinishShared(w, slot, register, value) ==
    [w EXCEPT !.slots = [s \in DOMAIN w.slots |->
                            IF s = slot
                            THEN BankSetRegister(w.slots[s], register, value)
                            ELSE [w.slots[s] EXCEPT
                                    !.registers[register] = Mask32(value)]],
              !.network_busy = FALSE]

\* set_control_register after its Timer: the register update and the busy flag,
\* lines 135-138 (the register is in range)
NetSetFinish(w, slot, register, value) ==
    [w EXCEPT !.slots[slot] = BankSetRegister(@, register, value),
              !.network_busy = FALSE]

\* get_control_register past its slot check
NetGetControlRegister(ss, slot, register) == BankGetRegister(ss[slot], register)

\* (mutant) global_enable is any() of the three bits
GetForgeStatusAny(ss, slot) ==
    IF slot \notin DOMAIN ss
    THEN [forge_ready |-> FALSE, user_enable |-> FALSE, clk_enable |-> FALSE,
          global_enable |-> FALSE]
    ELSE LET bits == GetForgeControlBits(ss[slot])
         IN  [forge_ready |-> bits.forge_ready,
              user_enable |-> bits.user_enable,
              clk_enable |-> bits.clk_enable,
              global_enable |-> bits.forge_ready \/ bits.user_enable
                                 \/ bits.clk_enable]

\* get_forge_status
GetForgeStatus(ss, slot) ==
    IF slot \notin DOMAIN ss
    THEN [forge_ready |-> FALSE, user_enable |-> FALSE, clk_enable |-> FALSE,
          global_enable |-> FALSE]
    ELSE LET bits == GetForgeControlBits(ss[slot])
         IN  [forge_ready |-> bits.forge_ready,
              user_enable |-> bits.user_enable,
              clk_enable |-> bits.clk_enable,
              global_enable |-> bits.forge_ready /\ bits.user_enable
                                 /\ bits.clk_enable]

\* (mutant) the three bits are or-ed in without being cleared first
ForgeWordNoClear(cr0, flags) ==
    ((cr0 \cup (IF flags[1] THEN Bit(31) ELSE {}))
        \cup (IF flags[2] THEN Bit(30) ELSE {}))
        \cup (IF flags[3] THEN Bit(29) ELSE {})

\* set_forge_control, lines 205-214: the CR0 it writes back, from the CR0 it
\* read on entry.  flags is <<forge_ready, user_enable, clk_enable>>.
ForgeWord(cr0, flags) ==
    ((cr0 \ {31, 30, 29})
        \cup (IF flags[1] THEN Bit(31) ELSE {}))
        \cup (IF flags[2] THEN Bit(30) ELSE {})
        \cup (IF flags[3] THEN Bit(29) ELSE {})

-----------------------------------------------------------------------------
(* CloudCompileSimulator *)

\* A dict assignment d[k] = v on a dict held as a function
DictSet(d, k, v) == (k :> v) @@ d
\* d.get(k, default)
DictGet(d, k, default) == IF k \in DOMAIN d THEN d[k] ELSE default

\* __init__: control_registers is settings.get('control_registers', {}) -- the
\* settings' own dict object when the key is present (aliased), else a new one.
NewCloudCompile(settings) ==
    [aliased |-> settings.control_registers /= None,
     control_registers |-> <<>>,
     applied_crs |-> <<>>,
     forge_state |-> [forge_ready |-> FALSE, user_enable |-> FALSE,
                      clk_enable |-> FALSE, loader_done |-> TRUE]]

\* self.control_registers of the simulator of a slot
CCControlRegisters(w, slot) ==
    IF w.cc[slot].aliased
    THEN w.config.slots[slot].settings.control_registers[1]
    ELSE w.cc[slot].control_registers

\* _update_forge_state
UpdateForgeState(forge_state, cr0_value) ==
    [forge_state EXCEPT !.forge_ready = TestBit(cr0_value, 31),
                        !.user_enable = TestBit(cr0_value, 30),
                        !.clk_enable = TestBit(cr0_value, 29)]

\* (mutant) the clock-enable flag is not asked for
IsEnabledNoClock(sim) ==
    /\ sim.forge_state.forge_ready
    /\ sim.forge_state.user_enable
    /\ sim.forge_state.loader_done

\* is_enabled
IsEnabled(sim) ==
    /\ sim.forge_state.forge_ready
    /\ sim.forge_state.user_enable
    /\ sim.forge_state.clk_enable
    /\ sim.forge_state.loader_done

\* CloudCompileSimulator.get_control_register
CCGetControlRegister(w, slot, register) ==
    DictGet(CCControlRegisters(w, slot), register, Zero)

\* hasattr(self.dut, f'Control{n}')
DutHasControl(d, n) == n \in DOMAIN d.control

\* (mutant) the FORGE state is decoded from every register written
CCWriteDeviceAnyRegister(w, slot, register, value) ==
    [w EXCEPT !.dut.control[register] = value,
              !.cc[slot].applied_crs = DictSet(@, register, value),
              !.cc[slot].forge_state = UpdateForgeState(@, value)]

\* the device write shared by apply_control_registers (lines 66-71) and
\* set_control_register (lines 91-97): the port, applied_crs and the FORGE state
CCWriteDevice(w, slot, register, value) ==
    [w EXCEPT !.dut.control[register] = value,
              !.cc[slot].applied_crs = DictSet(@, register, value),
              !.cc[slot].forge_state =
                    IF register = 0 THEN UpdateForgeState(@, value) ELSE @]

\* set_control_register, lines 91-97 (register in range, the port exists)
CCSetControlRegister(w, slot, register, value) ==
    LET w1 == CCWriteDevice(w, slot, register, value)
    IN  IF w1.cc[slot].aliased
        THEN [w1 EXCEPT !.config.slots[slot].settings.control_registers[1] =
                            DictSet(@, register, value)]
        ELSE [w1 EXCEPT !.cc[slot].control_registers = DictSet(@, register, value)]

-----------------------------------------------------------------------------
(* Signal names.  A Python str is the sequence of its characters. *)

S_Slot   == <<"S", "l", "o", "t">>
S_Out    == <<"O", "u", "t">>
S_In     == <<"I", "n">>
S_Output == <<"O", "u", "t", "p", "u", "t">>
S_Input  == <<"I", "n", "p", "u", "t">>
S_Arrow  == <<"-", ">">>

\* the names used by the tests
Slot2OutD == S_Slot \o <<"2">> \o S_Out \o <<"D">>
Slot1InA  == S_Slot \o <<"1">> \o S_In \o <<"A">>
OutputD   == S_Output \o <<"D">>
InputA    == S_Input \o <<"A">>

\* str.startswith
StartsWith(s, prefix) ==
    Len(s) >= Len(prefix) /\ SubSeq(s, 1, Len(prefix)) = prefix

DigitChars == {"0", "1", "2", "3", "4", "5", "6", "7", "8", "9"}
DigitValue(ch) ==
    CASE ch = "0" -> 0 [] ch = "1" -> 1 [] ch = "2" -> 2 [] ch = "3" -> 3
      [] ch = "4" -> 4 [] ch = "5" -> 5 [] ch = "6" -> 6 [] ch = "7" -> 7
      [] ch = "8" -> 8 [] ch = "9" -> 9

\* the length of the longest prefix of s made of digits: what \d+ takes
RECURSIVE LeadingDigits(_)
LeadingDigits(s) ==
    IF s = <<>> \/ Head(s) \notin DigitChars THEN 0
    ELSE 1 + LeadingDigits(Tail(s))

\* int() of a string of digits
RECURSIVE IntOfDigits(_)
IntOfDigits(s) ==
    IF s = <<>> THEN 0
    ELSE IntOfDigits(SubSeq(s, 1, Len(s) - 1)) * 10 + DigitValue(s[Len(s)])

\* (mutant) every slot output is taken to be OutputA
PortNameFirstChannel(direction, channel) ==
    IF direction = S_Out THEN S_Output \o <<"A">> ELSE S_Input \o <<channel>>

\* f"Output{channel}" if direction == "Out" else f"Input{channel}"
PortName(direction, channel) ==
    IF direction = S_Out THEN S_Output \o <<channel>> ELSE S_Input \o <<channel>>

\* _parse_signal_name: re.match(r'Slot(\d+)(Out|In)([A-D])', signal) matches at
\* the start of the string and ignores what follows the channel letter.
\* Returns (slot or None, port name).
ParseSignalName(signal) ==
    LET rest == SubSeq(signal, Len(S_Slot) + 1, Len(signal))
        nd == LeadingDigits(rest)
        tail == SubSeq(rest, nd + 1, Len(rest))
        direction == IF StartsWith(tail, S_Out) THEN S_Out
                     ELSE IF StartsWith(tail, S_In) THEN S_In
                     ELSE <<>>
        after == SubSeq(tail, Len(direction) + 1, Len(tail))
        matched == /\ StartsWith(signal, S_Slot)
                   /\ nd >= 1
                   /\ direction /= <<>>
                   /\ after /= <<>>
                   /\ Head(after) \in {"A", "B", "C", "D"}
    IN  IF matched
        THEN [slot |-> Some(IntOfDigits(SubSeq(rest, 1, nd))),
              port |-> PortName(direction, Head(after))]
        ELSE [slot |-> None, port |-> signal]

\* the key of routing_matrix: f"{src}->{dst}"
RoutingKey(src, dst) == src \o S_Arrow \o dst

-----------------------------------------------------------------------------
(* OscilloscopeSimulator *)

\* settings.get('sample_rate', 125e6)
DefaultSampleRate == 125000000
\* width of the device's output signals (signed 16-bit voltages)
SignalWidth == 16

OutputA == S_Output \o <<"A">>
OutputB == S_Output \o <<"B">>
OutputC == S_Output \o <<"C">>
S_count_out == <<"c", "o", "u", "n", "t", "_", "o", "u", "t">>
S_debug_bus == <<"d", "e", "b", "u", "g", "_", "b", "u", "s">>
S_probe_out == <<"p", "r", "o", "b", "e", "_", "o", "u", "t">>

Range(f) == {f[i] : i \in DOMAIN f}

\* hasattr(dut, name) for a signal name
DutHasSignal(d, name) == name \in DOMAIN d.signal

\* _discover_channels
DiscoverChannels(d) ==
    LET found == SelectSeq(<<OutputA, OutputB, OutputC, OutputD,
                             S_count_out, S_debug_bus, S_probe_out>>,
                           LAMBDA n : DutHasSignal(d, n))
    IN  IF found = <<>> THEN <<OutputC>> ELSE found

\* __init__.  channels is settings.get('channels', ...): the settings' own list
\* when the key is present (aliased), else the discovered one.
NewOscilloscope(d, settings) ==
    LET chans == IF settings.channels /= None THEN settings.channels[1]
                 ELSE DiscoverChannels(d)
        rate == IF settings.sample_rate /= None THEN settings.sample_rate[1]
                ELSE DefaultSampleRate
    IN  [aliased |-> settings.channels /= None,
         channels |-> IF settings.channels /= None THEN <<>> ELSE chans,
         data |-> [ch \in Range(chans) |-> <<>>],
         external_channels |-> <<>>,
         sample_period_ns |-> 1000000000 \div rate,
         decimation |-> IF settings.decimation /= None THEN settings.decimation[1]
                        ELSE 1,
         total_samples |-> 0,
         capture_active |-> FALSE]

\* self.channels of the oscilloscope of a slot
OscChannels(cfg, o, slot) ==
    IF o.aliased THEN cfg.slots[slot].settings.channels[1] ELSE o.channels

\* getattr(dut, name): a handle on the device's signal, not its value
SignalHandle(name) == [signal |-> name]

\* (mutant) the device's own signal is looked up first
OscGetSignalDeviceFirst(o, d, channel_name) ==
    IF DutHasSignal(d, channel_name) THEN Some(SignalHandle(channel_name))
    ELSE IF channel_name \in DOMAIN o.external_channels
    THEN Some(o.external_channels[channel_name])
    ELSE None

\* _get_signal: the external channels first, then the device; None if neither
OscGetSignal(o, d, channel_name) ==
    IF channel_name \in DOMAIN o.external_channels
    THEN Some(o.external_channels[channel_name])
    ELSE IF DutHasSignal(d, channel_name) THEN Some(SignalHandle(channel_name))
    ELSE None

\* the signed reading of a SignalWidth-bit value
ToSigned(raw) ==
    IF raw >= 2 ^ (SignalWidth - 1) THEN raw - 2 ^ SignalWidth ELSE raw

\* _read_signal_value: int(signal.value.signed_integer), of the value the
\* signal has when it is read
ReadSignalValue(d, handle) == ToSigned(d.signal[handle.signal])

\* (mutant) a new sample is put at the head of the buffer
RECURSIVE SampleChannelsAtHead(_, _, _, _)
SampleChannelsAtHead(o, d, chans, t) ==
    IF chans = <<>> THEN o
    ELSE LET ch == Head(chans)
             signal == OscGetSignal(o, d, ch)
             o1 == IF signal = None THEN o
                   ELSE [o EXCEPT
                           !.data[ch] = << <<t, ReadSignalValue(d, signal[1])>> >> \o @,
                           !.total_samples = @ + 1]
         IN  SampleChannelsAtHead(o1, d, Tail(chans), t)

\* the body of the capture loop, lines 115-121: one sample of every channel
\* that has a signal
RECURSIVE SampleChannels(_, _, _, _)
SampleChannels(o, d, chans, t) ==
    IF chans = <<>> THEN o
    ELSE LET ch == Head(chans)
             signal == OscGetSignal(o, d, ch)
             o1 == IF signal = None THEN o
                   ELSE [o EXCEPT
                           !.data[ch] = Append(@, <<t, ReadSignalValue(d, signal[1])>>),
                           !.total_samples = @ + 1]
         IN  SampleChannels(o1, d, Tail(chans), t)

\* add_external_channel, with the append to self.channels done by the caller
\* on the list that self.channels is
OscAddExternalChannel(o, channel_name, handle) ==
    [o EXCEPT !.external_channels = DictSet(@, channel_name, handle),
              !.data = IF channel_name \in DOMAIN o.data THEN @
                       ELSE DictSet(@, channel_name, <<>>)]

-----------------------------------------------------------------------------
(* The register-write coroutines: NetworkCRInterface.set_control_register and *)
(* set_forge_control, SimulationBackend.set_control_register and              *)
(* set_forge_control.  A call is at "delay" (suspended on the network Timer), *)
(* "propagate" (suspended on the simulator's 1 ns Timer), "done" (returned)   *)
(* or "raised" (ended by an exception).                                       *)

\* SimulationBackend.set_control_register / set_forge_control: delay_ms = 200.0
BackendDefaultDelayMs == 200

NetOps == {"net_set", "net_forge"}
BackendOps == {"be_set", "be_forge"}
ForgeOps == {"net_forge", "be_forge"}
\* get_control_register (of the network interface and of the backend)
GetOps == {"net_get", "be_get"}
\* get_forge_status and SimulationBackend.validate_forge_control
StatusOps == {"net_status", "be_validate"}

\* `after` is history: the calls that had already ended when this one was
\* issued (the caller had awaited them, if it made them).
NewCall(op, slot, register, value, flags, delay_ms, t) ==
    [op |-> op, slot |-> slot, register |-> register, value |-> value,
     flags |-> flags,
     delay_ms |-> IF op \in BackendOps /\ delay_ms = None
                  THEN Some(BackendDefaultDelayMs) ELSE delay_ms,
     issued |-> t, due |-> t, pc |-> "start", returned |-> -1, result |-> None,
     after |-> {j \in DOMAIN calls : calls[j].pc \in {"done", "raised"}}]

Out(w, c) == [w |-> w, c |-> c]
Return(w, c, t) == Out(w, [c EXCEPT !.pc = "done", !.returned = t])
Raise(w, c, t) == Out(w, [c EXCEPT !.pc = "raised", !.returned = t])
\* a call that returns a value to its caller
ReturnValue(w, c, t, x) ==
    Out(w, [c EXCEPT !.pc = "done", !.returned = t, !.result = Some(x)])

\* (mutant) the failed write is logged before the exception leaves
SetRegisterRaisesLogged(w, slot, reg, value) ==
    [w EXCEPT !.slots[slot].access_log =
                Append(@, [type |-> "write", register |-> reg,
                           old_value |-> Zero, new_value |-> value])]

\* set_register with reg outside 0..15: the ValueError is raised by the first
\* statement, before the registers and the log are touched
SetRegisterRaises(w, slot, reg, value) == w

\* NetworkCRInterface.get_control_register
GetControlRegister(w, c, t) ==
    IF c.slot \notin DOMAIN w.slots THEN Raise(w, c, t)
    ELSE IF ~RegInRange(c.register) THEN Raise(w, c, t)
    ELSE ReturnValue(w, c, t, NetGetControlRegister(w.slots, c.slot, c.register))

\* CloudCompileSimulator.get_status_registers: an entry for every Status port
\* the device has (d.status maps the index of a port to [readable, value]),
\* its value, or 0 when int(port.value) raises (an unresolved value)
GetStatusRegisters(d) ==
    [r \in DOMAIN d.status |->
        IF d.status[r].readable THEN d.status[r].value ELSE Zero]

\* SimulationBackend.get_status_register: 0 when the slot has no simulator, or
\* one without get_status_registers
GetStatusRegister(w, c, t) ==
    IF c.slot \in DOMAIN simulators /\ simulators[c.slot] = "CloudCompile"
    THEN ReturnValue(w, c, t, DictGet(GetStatusRegisters(w.dut), c.register, Zero))
    ELSE ReturnValue(w, c, t, Zero)

\* SimulationBackend.set_control_register lines 255-258 (and set_forge_control
\* lines 304-306) with CloudCompileSimulator.set_control_register inlined
BackendApplyToSimulator(w, c, register, value, t) ==
    IF c.slot \in DOMAIN simulators /\ simulators[c.slot] = "CloudCompile"
    THEN IF ~RegInRange(register) THEN Raise(w, c, t)
         ELSE IF DutHasControl(w.dut, register)
              THEN Out(CCSetControlRegister(w, c.slot, register, value),
                       [c EXCEPT !.pc = "propagate", !.due = t + PropagationNs])
              ELSE Return(w, c, t)
    ELSE Return(w, c, t)

\* what follows the network Timer: the register update, then the caller's rest
AfterNetworkDelay(w, c, t) ==
    IF ~RegInRange(c.register)
    THEN Raise(SetRegisterRaises(w, c.slot, c.register, c.value), c, t)
    ELSE LET w1 == NetSetFinish(w, c.slot, c.register, c.value)
         IN  IF c.op \in NetOps THEN Return(w1, c, t)
             ELSE IF c.op = "be_set"
                  THEN BackendApplyToSimulator(w1, c, c.register, c.value, t)
                  ELSE BackendApplyToSimulator(w1, c, 0,
                            NetGetControlRegister(w1.slots, c.slot, 0), t)

\* NetworkCRInterface.set_control_register from its entry
NetSetControlRegister(w, c, t) ==
    IF c.slot \notin DOMAIN w.slots THEN Raise(w, c, t)
    ELSE LET w1 == NetSetBegin(w)
             delay == EffectiveDelayMs(c.delay_ms)
         IN  IF delay > 0
             THEN Out(w1, [c EXCEPT !.pc = "delay", !.due = t + DelayNs(delay)])
             ELSE AfterNetworkDelay(w1, c, t)

\* the first segment of a call, up to its first Timer (or its end)
BeginCall(w, c, t) ==
    IF c.op \in ForgeOps
    THEN IF c.slot \notin DOMAIN w.slots THEN Raise(w, c, t)
         ELSE NetSetControlRegister(w,
                [c EXCEPT !.register = 0,
                          !.value = ForgeWord(
                              NetGetControlRegister(w.slots, c.slot, 0), c.flags)],
                t)
    ELSE IF c.op \in GetOps THEN GetControlRegister(w, c, t)
    ELSE IF c.op \in StatusOps
         THEN ReturnValue(w, c, t, GetForgeStatus(w.slots, c.slot))
    ELSE IF c.op = "be_status" THEN GetStatusRegister(w, c, t)
    ELSE NetSetControlRegister(w, c, t)

\* the segment a call runs when its Timer fires
ResumeCall(w, c, t) ==
    IF c.pc = "delay" THEN AfterNetworkDelay(w, c, t) ELSE Return(w, c, t)

Suspended(c) == c.pc \in {"delay", "propagate"}

-----------------------------------------------------------------------------
(* SimulationBackend.setup.  The configuration is                            *)
(*   [slots |-> slot -> [instrument, settings, control_registers],           *)
(*    order |-> the slots in the order of config.slots.items(),              *)
(*    routing |-> a sequence of [source, destination]];                      *)
(* settings is [control_registers, channels, sample_rate, decimation], each  *)
(* None when the key is absent; a slot's control_registers is None or the    *)
(* dict's items as <<register, value>> pairs.                                *)

\* SIMULATOR_REGISTRY
SIMULATOR_REGISTRY == {"Oscilloscope", "CloudCompile"}

\* no key of the settings dict is present
NoSettings ==
    [control_registers |-> None, channels |-> None, sample_rate |-> None,
     decimation |-> None]

\* the state setup works on: what a register write works on, and the rest of
\* the backend
BackendWorld ==
    [slots |-> slots, network_busy |-> network_busy,
     total_network_ops |-> total_network_ops, cc |-> cc, dut |-> dut,
     config |-> config, simulators |-> simulators, osc |-> osc,
     routing_matrix |-> routing_matrix, raised |-> FALSE]

SetBackendWorld(b) ==
    /\ SetWorld(b)
    /\ simulators' = b.simulators
    /\ osc' = b.osc
    /\ routing_matrix' = b.routing_matrix

\* add_slot raises ValueError on an initial register outside 0..15
InitialValuesRaise(items) == \E k \in DOMAIN items : ~RegInRange(items[k][1])

\* (mutant) the slot gets its register bank whatever its instrument type is
CreateSimulatorBankAlways(b, slot_num) ==
    LET slot_config == b.config.slots[slot_num]
        initial_crs == IF slot_config.control_registers = None THEN <<>>
                       ELSE slot_config.control_registers[1]
        b1 == IF slot_config.instrument = "CloudCompile"
              THEN [b EXCEPT !.cc = DictSet(@, slot_num,
                                        NewCloudCompile(slot_config.settings))]
              ELSE [b EXCEPT !.osc = DictSet(@, slot_num,
                                        NewOscilloscope(b.dut, slot_config.settings))]
    IN  IF slot_config.instrument \notin SIMULATOR_REGISTRY
        THEN [b EXCEPT !.slots = NetAddSlot(@, slot_num, initial_crs)]
        ELSE [b1 EXCEPT
                !.simulators = DictSet(@, slot_num, slot_config.instrument),
                !.slots = NetAddSlot(@, slot_num, initial_crs),
                !.raised = InitialValuesRaise(initial_crs)]

\* _create_simulator
CreateSimulator(b, slot_num) ==
    LET slot_config == b.config.slots[slot_num]
        initial_crs == IF slot_config.control_registers = None THEN <<>>
                       ELSE slot_config.control_registers[1]
        b1 == IF slot_config.instrument = "CloudCompile"
              THEN [b EXCEPT !.cc = DictSet(@, slot_num,
                                        NewCloudCompile(slot_config.settings))]
              ELSE [b EXCEPT !.osc = DictSet(@, slot_num,
                                        NewOscilloscope(b.dut, slot_config.settings))]
    IN  IF slot_config.instrument \notin SIMULATOR_REGISTRY THEN b
        ELSE [b1 EXCEPT
                !.simulators = DictSet(@, slot_num, slot_config.instrument),
                !.slots = NetAddSlot(@, slot_num, initial_crs),
                !.raised = InitialValuesRaise(initial_crs)]

\* setup, lines 48-50: a simulator for each slot, until one raises
RECURSIVE CreateSimulators(_, _)
CreateSimulators(b, order) ==
    IF order = <<>> \/ b.raised THEN b
    ELSE CreateSimulators(CreateSimulator(b, Head(order)), Tail(order))

\* list.append on the list that the oscilloscope's self.channels is
OscAppendChannel(b, slot, channel_name) ==
    IF b.osc[slot].aliased
    THEN [b EXCEPT !.config.slots[slot].settings.channels[1] =
                        Append(@, channel_name)]
    ELSE [b EXCEPT !.osc[slot].channels = Append(@, channel_name)]

\* (mutant) the channel is appended whether or not the list has it
AddExternalChannelAlways(b, slot, channel_name, handle) ==
    OscAppendChannel([b EXCEPT !.osc[slot] =
                            OscAddExternalChannel(@, channel_name, handle)],
                     slot, channel_name)

\* add_external_channel on the oscilloscope of a slot: the binding, the
\* buffer, and the channel appended to self.channels if not present
AddExternalChannelIn(b, slot, channel_name, handle) ==
    LET b1 == [b EXCEPT !.osc[slot] = OscAddExternalChannel(@, channel_name, handle)]
    IN  IF channel_name \in Range(OscChannels(b.config, b.osc[slot], slot))
        THEN b1
        ELSE OscAppendChannel(b1, slot, channel_name)

\* (mutant) the device is not asked whether it has the source signal
ApplyRoutingConnectionAnySignal(b, src, dst) ==
    LET s == ParseSignalName(src)
        d == ParseSignalName(dst)
    IN  IF /\ s.slot /= None /\ d.slot /= None
           /\ s.slot[1] \in DOMAIN b.simulators
           /\ d.slot[1] \in DOMAIN b.simulators
           /\ b.simulators[d.slot[1]] = "Oscilloscope"
        THEN AddExternalChannelIn(b, d.slot[1], d.port, SignalHandle(s.port))
        ELSE b

\* _apply_routing_connection
ApplyRoutingConnection(b, src, dst) ==
    LET s == ParseSignalName(src)
        d == ParseSignalName(dst)
    IN  IF /\ s.slot /= None /\ d.slot /= None
           /\ s.slot[1] \in DOMAIN b.simulators
           /\ d.slot[1] \in DOMAIN b.simulators
           /\ DutHasSignal(b.dut, s.port)
           /\ b.simulators[d.slot[1]] = "Oscilloscope"
        THEN AddExternalChannelIn(b, d.slot[1], d.port, SignalHandle(s.port))
        ELSE b

\* (mutant) a connection is entered in the matrix only when it changed a simulator
RECURSIVE SetupRoutingBoundOnly(_, _)
SetupRoutingBoundOnly(b, routing) ==
    IF routing = <<>> THEN b
    ELSE LET connection == Head(routing)
             b1 == ApplyRoutingConnection(b, connection.source, connection.destination)
             b2 == IF b1 = b THEN b
                   ELSE [b1 EXCEPT !.routing_matrix =
                            DictSet(@, RoutingKey(connection.source,
                                                  connection.destination), connection)]
         IN  SetupRoutingBoundOnly(b2, Tail(routing))

\* _setup_routing
RECURSIVE SetupRouting(_, _)
SetupRouting(b, routing) ==
    IF routing = <<>> THEN b
    ELSE LET connection == Head(routing)
             b1 == [b EXCEPT !.routing_matrix =
                        DictSet(@, RoutingKey(connection.source,
                                              connection.destination), connection)]
         IN  SetupRouting(
                ApplyRoutingConnection(b1, connection.source, connection.destination),
                Tail(routing))

\* self.simulators in insertion order
SimulatorOrder(cfg, sims) == SelectSeq(cfg.order, LAMBDA n : n \in DOMAIN sims)

\* the simulators _apply_initial_control_registers awaits, in order
ApplyQueue(cfg, sims) ==
    SelectSeq(SimulatorOrder(cfg, sims), LAMBDA n : sims[n] = "CloudCompile")

\* (mutant) a register without a configured value is not written
CCApplyRegisterConfiguredOnly(b, slot, reg_num) ==
    IF reg_num \in DOMAIN CCControlRegisters(b, slot) /\ DutHasControl(b.dut, reg_num)
    THEN CCWriteDevice(b, slot, reg_num, CCControlRegisters(b, slot)[reg_num])
    ELSE b

\* apply_control_registers, one turn of its loop up to the Timer: lines 61-71
CCApplyRegister(b, slot, reg_num) ==
    LET value == DictGet(CCControlRegisters(b, slot), reg_num, Zero)
    IN  IF DutHasControl(b.dut, reg_num) THEN CCWriteDevice(b, slot, reg_num, value)
        ELSE b

-----------------------------------------------------------------------------
(* The virtual clock (the cocotb scheduler) *)

Min(S) == CHOOSE x \in S : \A y \in S : x <= y
Max(S) == CHOOSE x \in S : \A y \in S : x >= y

SuspendedCalls == {i \in DOMAIN calls : Suspended(calls[i])}
SuspendedRuns == {i \in DOMAIN runs : runs[i].pc = "wait"}

\* the times at which the pending Timers fire
PendingDue ==
    {calls[i].due : i \in SuspendedCalls}
        \cup {runs[i].due : i \in SuspendedRuns}
        \cup (IF setup.pc = "wait" THEN {setup.due} ELSE {})

\* No Timer is due: time moves to the earliest pending Timer.
Advance ==
    /\ PendingDue /= {}
    /\ \A d \in PendingDue : d > now
    /\ now' = Min(PendingDue)
    /\ UNCHANGED <<netVars, calls, beVars, scopeVars, dut, script>>

\* The test body awaits Timer(ms) while some call is in flight, and resumes at
\* now + ms, no later than the first pending Timer (a Timer that fires earlier
\* is taken by Advance; with nothing in flight the wait changes nothing but the
\* origin of time).
Idle(ms) ==
    /\ PendingDue /= {}
    /\ \A d \in PendingDue : d >= now + ms * NsPerMs
    /\ now' = now + ms * NsPerMs
    /\ UNCHANGED <<netVars, calls, beVars, scopeVars, dut, script>>

-----------------------------------------------------------------------------
(* Operations on the network interface and the backend *)

\* network.add_slot(slot, initial_values), called by a test body
AddSlot(slot, initial_values) ==
    /\ slots' = NetAddSlot(slots, slot, initial_values)
    /\ UNCHANGED <<now, network_busy, total_network_ops, calls, beVars,
                   scopeVars, dut, script>>

\* A register-write call is started (awaited or start_soon'ed): it runs to its
\* first Timer, or to its end when it has none.
Start(op, slot, register, value, flags, delay_ms) ==
    /\ LET r == BeginCall(World,
                    NewCall(op, slot, register, value, flags, delay_ms, now), now)
       IN  /\ SetWorld(r.w)
           /\ calls' = Append(calls, r.c)
    /\ UNCHANGED <<now, simulators, routing_matrix, setup, scopeVars>>

\* a call started by a task of the test at any time
Issue(op, slot, register, value, flags, delay_ms) ==
    /\ Len(calls) < MaxCalls
    /\ Start(op, slot, register, value, flags, delay_ms)
    /\ UNCHANGED script

\* The Timer of call i fires: the call runs to its next Timer or to its end.
Fire(i) ==
    /\ i \in SuspendedCalls
    /\ calls[i].due = now
    /\ LET r == ResumeCall(World, calls[i], now)
       IN  /\ SetWorld(r.w)
           /\ calls' = [calls EXCEPT ![i] = r.c]
    /\ UNCHANGED <<now, simulators, routing_matrix, setup, scopeVars, script>>

\* setup() from its start to its first Timer: the simulators, the routing,
\* and the first register of the first CloudCompile simulator
Setup ==
    /\ setup.pc = "idle"
    /\ LET b1 == CreateSimulators(BackendWorld, config.order)
           b2 == SetupRouting(b1, b1.config.routing)
           queue == ApplyQueue(b2.config, b2.simulators)
       IN  IF b1.raised
           THEN /\ SetBackendWorld(b1)
                /\ setup' = [setup EXCEPT !.pc = "raised"]
           ELSE IF queue = <<>>
           THEN /\ SetBackendWorld(b2)
                /\ setup' = [setup EXCEPT !.pc = "done", !.complete = TRUE]
           ELSE /\ SetBackendWorld(CCApplyRegister(b2, Head(queue), 0))
                /\ setup' = [setup EXCEPT !.pc = "wait", !.due = now + PropagationNs,
                                          !.pending = queue, !.reg_num = 0]
    /\ UNCHANGED <<now, calls, runs, requests, script>>

\* the Timer of apply_control_registers fires: the next register, the next
\* simulator, or the end of setup
SetupStep ==
    /\ setup.pc = "wait"
    /\ setup.due = now
    /\ IF setup.reg_num < MaxReg
       THEN /\ SetBackendWorld(
                    CCApplyRegister(BackendWorld, Head(setup.pending), setup.reg_num + 1))
            /\ setup' = [setup EXCEPT !.due = now + PropagationNs, !.reg_num = @ + 1]
       ELSE IF Tail(setup.pending) /= <<>>
       THEN /\ SetBackendWorld(
                    CCApplyRegister(BackendWorld, Head(Tail(setup.pending)), 0))
            /\ setup' = [setup EXCEPT !.due = now + PropagationNs, !.reg_num = 0,
                                      !.pending = Tail(@)]
       ELSE /\ SetBackendWorld(BackendWorld)
            /\ setup' = [setup EXCEPT !.pc = "done", !.complete = TRUE,
                                      !.pending = <<>>]
    /\ UNCHANGED <<now, calls, runs, requests, script>>

\* OscilloscopeSimulator.run / CloudCompileSimulator.run from its start to its
\* first Timer, as a task record and the oscilloscope it leaves
RunTask(kind, slot, duration_ns, t, period) ==
    [kind |-> kind, slot |-> slot, start_time |-> t, duration_ns |-> duration_ns,
     current_time_ns |-> t, pc |-> "wait", due |-> t + period]

\* OscilloscopeSimulator._format_channel_data
FormatChannelData(o, channel) ==
    IF channel \notin DOMAIN o.data
    THEN [time |-> <<>>, values |-> <<>>, sample_count |-> 0]
    ELSE [time |-> [k \in DOMAIN o.data[channel] |-> o.data[channel][k][1]],
          values |-> [k \in DOMAIN o.data[channel] |-> o.data[channel][k][2]],
          sample_count |-> Len(o.data[channel])]

\* OscilloscopeSimulator.get_data(): every channel of self.channels
OscGetData(slot) ==
    [ch \in Range(OscChannels(config, osc[slot], slot)) |->
        FormatChannelData(osc[slot], ch)]

\* CloudCompileSimulator.get_data() (the bitstream path, which nothing
\* changes, is left out)
CCGetData(slot) ==
    [control_registers |-> CCControlRegisters(World, slot),
     applied_crs |-> cc[slot].applied_crs,
     status_registers |-> GetStatusRegisters(dut),
     forge_state |-> cc[slot].forge_state,
     enabled |-> IsEnabled(cc[slot])]

\* (mutant) only the simulators whose task has ended are asked for their data
CollectDataOfEnded ==
    [s \in {x \in DOMAIN simulators :
                \A j \in DOMAIN runs : runs[j].slot = x => runs[j].pc = "done"} |->
        IF simulators[s] = "Oscilloscope" THEN OscGetData(s) ELSE CCGetData(s)]

\* the dict SimulationBackend.run returns: get_data() of every simulator, by slot
CollectData ==
    [s \in DOMAIN simulators |->
        IF simulators[s] = "Oscilloscope" THEN OscGetData(s) ELSE CCGetData(s)]

OscRunBegin(o, d, chans, slot, duration_ns, t) ==
    IF 0 < duration_ns
    THEN [o |-> SampleChannels([o EXCEPT !.capture_active = TRUE], d, chans, t),
          r |-> RunTask("osc", slot, duration_ns, t,
                        o.sample_period_ns * o.decimation)]
    ELSE [o |-> [o EXCEPT !.capture_active = FALSE],
          r |-> [RunTask("osc", slot, duration_ns, t, 0) EXCEPT !.pc = "done"]]

\* the tasks backend.run starts, one per simulator in order
RECURSIVE StartTasks(_, _, _, _)
StartTasks(st, order, duration_ns, t) ==
    IF order = <<>> THEN st
    ELSE LET slot == Head(order)
             b == OscRunBegin(st.osc[slot], dut,
                              OscChannels(config, st.osc[slot], slot),
                              slot, duration_ns, t)
             st1 == IF simulators[slot] = "Oscilloscope"
                    THEN [osc |-> [st.osc EXCEPT ![slot] = b.o],
                          tasks |-> Append(st.tasks, b.r)]
                    ELSE [osc |-> st.osc,
                          tasks |-> Append(st.tasks,
                                RunTask("cc", slot, duration_ns, t, duration_ns))]
         IN  StartTasks(st1, Tail(order), duration_ns, t)

\* backend.run(duration) after setup, up to its Timer: every simulator's run
\* is started and runs to its first Timer.  duration_ns is int(duration_ms * 1e6).
StartRun(duration_ns) ==
    /\ setup.complete
    /\ LET st == StartTasks([osc |-> osc, tasks |-> <<>>],
                            SimulatorOrder(config, simulators), duration_ns, now)
       IN  /\ osc' = st.osc
           /\ runs' = runs \o <<RunTask("backend", 0, duration_ns, now, duration_ns)>>
                           \o st.tasks
    /\ UNCHANGED <<now, netVars, calls, beVars, dut, requests>>

\* backend.run called by a task of the test at any time
Run(duration_ns) ==
    /\ Cardinality({i \in DOMAIN runs : runs[i].kind = "backend"}) < MaxRuns
    /\ StartRun(duration_ns)
    /\ UNCHANGED script

\* the runs of backend.run
BackendRunsOf(rs) == {i \in DOMAIN rs : rs[i].kind = "backend"}

\* backend.run called by the test body again as soon as its previous call has
\* returned: `await backend.run(d)` back to back
RunAgain(duration_ns) ==
    /\ script < MaxBackToBack
    /\ \A i \in BackendRunsOf(runs) : runs[i].pc = "done"
    /\ script > 0 => \E i \in BackendRunsOf(runs) : runs[i].due = now
    /\ StartRun(duration_ns)
    /\ script' = script + 1

\* (mutant) the loop runs for its whole duration, whatever capture_active is
LoopContinuesNoStop(r, o) == r.current_time_ns - r.start_time < r.duration_ns

\* the loop condition of OscilloscopeSimulator.run as evaluated after a wait:
\* elapsed_ns is current_time_ns - start_time, with the current_time_ns read
\* before the wait
LoopContinues(r, o) ==
    r.current_time_ns - r.start_time < r.duration_ns /\ o.capture_active

\* the Timer of run task i fires.  The oscilloscope's loop computes elapsed_ns
\* from the time it read before the wait, then samples again or ends; backend.run
\* returns CollectData, the data of every simulator as it is then.
FireRun(i) ==
    /\ i \in SuspendedRuns
    /\ runs[i].due = now
    /\ LET r == runs[i]
           o == osc[r.slot]
       IN  IF r.kind = "osc"
           THEN IF LoopContinues(r, o)
                THEN /\ osc' = [osc EXCEPT ![r.slot] =
                                    SampleChannels(o, dut,
                                        OscChannels(config, o, r.slot), now)]
                     /\ runs' = [runs EXCEPT ![i].current_time_ns = now,
                                    ![i].due = now + o.sample_period_ns * o.decimation]
                ELSE /\ osc' = [osc EXCEPT ![r.slot].capture_active = FALSE]
                     /\ runs' = [runs EXCEPT ![i].pc = "done"]
           ELSE /\ runs' = [runs EXCEPT ![i].pc = "done"]
                /\ osc' = osc
    /\ UNCHANGED <<now, netVars, calls, beVars, dut, requests, script>>

\* a call the test body makes on a simulator, as a history record: the call,
\* its time, the run tasks suspended on their Timer when it is made, and the
\* samples the simulator had taken by then
Request(op, slot, channel_name, handle, t) ==
    [op |-> op, slot |-> slot, channel_name |-> channel_name, handle |-> handle,
     t |-> t, suspended |-> SuspendedRuns,
     total_samples |-> IF slot \in DOMAIN osc THEN osc[slot].total_samples ELSE 0,
     args |-> <<>>, result |-> None]

\* oscilloscope.add_external_channel(channel_name, handle), called by a test body
AddExternalChannel(slot, channel_name, handle) ==
    /\ slot \in DOMAIN osc
    /\ Len(requests) < MaxRequests
    /\ SetBackendWorld(AddExternalChannelIn(BackendWorld, slot, channel_name, handle))
    /\ requests' = Append(requests,
                          Request("add_external_channel", slot, channel_name, handle, now))
    /\ UNCHANGED <<now, calls, setup, runs, script>>

\* oscilloscope.stop_capture(), called by a test body
StopCapture(slot) ==
    /\ slot \in DOMAIN osc
    /\ Len(requests) < MaxRequests
    /\ osc' = [osc EXCEPT ![slot].capture_active = FALSE]
    /\ requests' = Append(requests,
                          Request("stop_capture", slot, <<>>, SignalHandle(<<>>), now))
    /\ UNCHANGED <<now, netVars, calls, beVars, dut, runs, script>>

\* int.bit_length() of a value >= 0
BitLength(n) == CHOOSE b \in 0 .. SignalWidth : n < 2 ^ b /\ (b > 0 => n >= 2 ^ (b - 1))

\* verify_incrementing, the loop from its turn i on (lines 282-300): samples is
\* self.data[channel], a list of (time, value) indexed from 0 in the code and
\* from 1 here; max_val is taken over self.data[channel][:idx+2]
RECURSIVE VerifyLoop(_, _, _, _)
VerifyLoop(samples, start_sample, count, i) ==
    IF i > count - 2 THEN TRUE
    ELSE LET idx == start_sample + i
         IN  IF idx + 1 >= Len(samples) THEN FALSE
             ELSE LET current_val == samples[idx + 1][2]
                      next_val == samples[idx + 2][2]
                      max_val == Max({samples[k][2] : k \in 1 .. idx + 2})
                      expected == IF max_val > 0
                                  THEN (current_val + 1) % (2 ^ BitLength(max_val))
                                  ELSE current_val + 1
                  IN  IF next_val /= expected THEN FALSE
                      ELSE VerifyLoop(samples, start_sample, count, i + 1)

\* OscilloscopeSimulator.verify_incrementing
VerifyIncrementing(o, channel, start_sample, count) ==
    IF channel \notin DOMAIN o.data THEN FALSE
    ELSE VerifyLoop(o.data[channel], start_sample, count, 0)

\* oscilloscope.verify_incrementing(channel, start_sample, count), called by a
\* test body once the runs have ended
VerifyIncrementingCall(slot, channel, start_sample, count) ==
    /\ slot \in DOMAIN osc
    /\ SuspendedRuns = {}
    /\ Len(requests) < MaxRequests
    /\ requests' = Append(requests,
            [Request("verify_incrementing", slot, channel, SignalHandle(<<>>), now)
                EXCEPT !.args = <<start_sample, count>>,
                       !.result = Some(VerifyIncrementing(osc[slot], channel,
                                                          start_sample, count))])
    /\ UNCHANGED <<now, netVars, calls, beVars, dut, osc, runs, script>>

\* the device drives one of its output signals to a new value
Drive(name, raw) ==
    /\ DutHasSignal(dut, name)
    /\ dut.signal[name] /= raw
    /\ dut' = [dut EXCEPT !.signal[name] = raw]
    /\ UNCHANGED <<now, netVars, calls, beVars, scopeVars, script>>

-----------------------------------------------------------------------------
(* Spec: the network interface used directly by concurrent test tasks, as in *)
(* test_network_cr_primitives: the slots are added first, then register      *)
(* writes are started at any time, awaited or not.                           *)

NoFlags == <<FALSE, FALSE, FALSE>>
EmptyConfig == [slots |-> <<>>, order |-> <<>>, routing |-> <<>>]
\* a device exposing Control0..Control15 and OutputA..OutputD, all 0 after reset
FullDut ==
    [control |-> [r \in Registers |-> Zero],
     signal |-> [n \in {OutputA, OutputB, OutputC, OutputD} |-> 0],
     status |-> <<>>]

SlotInputs == {1, 2}
RegInputs == {0, 1}
ValueInputs == {FULLY_ENABLED, Wide33}
DelayInputs == {None, Some(0), Some(50)}
IdleInputs == {100}

InitState(cfg, d) ==
    /\ now = 0
    /\ slots = <<>>
    /\ network_busy = FALSE
    /\ total_network_ops = 0
    /\ calls = <<>>
    /\ simulators = <<>>
    /\ cc = <<>>
    /\ osc = <<>>
    /\ dut = d
    /\ config = cfg
    /\ routing_matrix = <<>>
    /\ setup = [complete |-> FALSE, pc |-> "idle", due |-> 0, pending |-> <<>>,
                reg_num |-> 0]
    /\ runs = <<>>
    /\ requests = <<>>
    /\ script = 0

Init == InitState(EmptyConfig, FullDut)

Next ==
    \/ \E s \in SlotInputs : calls = <<>> /\ AddSlot(s, <<>>)
    \/ \E s \in SlotInputs, r \in RegInputs, v \in ValueInputs, d \in DelayInputs :
            Issue("net_set", s, r, v, NoFlags, d)
    \/ \E i \in DOMAIN calls : Fire(i)
    \/ Advance
    \/ \E ms \in IdleInputs : Idle(ms)

Spec == Init /\ [][Next]_vars

-----------------------------------------------------------------------------
(* SpecBits: banks initialised and written with values of up to 64 bits;  *)
(* the writes are immediate (delay 0).                                    *)

\* sampled 64-bit values: the three FORGE bits all set, each one cleared, with
\* and without bit 0, and values with bits 32 and 63 set
WideValues ==
    {Zero, FULLY_ENABLED, {31, 30}, {31, 29}, {30, 29},
     {31, 30, 29, 0}, {31, 30, 0}, {28, 0},
     {63, 32, 31, 0}, Wide33, {63, 31, 30, 29}}

NextBits ==
    \/ \E s \in SlotInputs, x \in WideValues : AddSlot(s, << <<0, x>> >>)
    \/ \E r \in RegInputs, v \in ValueInputs :
            Issue("net_set", 1, r, v, NoFlags, Some(0))

SpecBits == Init /\ [][NextBits]_vars

-----------------------------------------------------------------------------
(* SpecForge: set_forge_control on one slot, concurrently with plain      *)
(* writes of the same register 0.                                         *)

FlagInputs == {<<TRUE, FALSE, FALSE>>, <<TRUE, FALSE, TRUE>>, <<TRUE, TRUE, TRUE>>}
ForgeInitialInputs == {<<>>, << <<0, FULLY_ENABLED \cup Bit(0)>> >>}

NextForge ==
    \/ \E iv \in ForgeInitialInputs : calls = <<>> /\ AddSlot(1, iv)
    \/ \E f \in FlagInputs, d \in DelayInputs :
            Issue("net_forge", 1, 0, Zero, f, d)
    \/ \E v \in ValueInputs : Issue("net_set", 1, 0, v, NoFlags, Some(50))
    \/ \E i \in DOMAIN calls : Fire(i)
    \/ Advance
    \/ \E ms \in IdleInputs : Idle(ms)

SpecForge == Init /\ [][NextForge]_vars

-----------------------------------------------------------------------------
(* SpecBackend: a backend with one CloudCompile (passthrough) slot, set up,  *)
(* then written through SimulationBackend.set_control_register and           *)
(* set_forge_control by concurrent tasks.                                    *)

\* a CloudCompile slot whose control_registers give CR0 = 0; the settings are
\* {} as in test_forge_control_sequence, or carry their own control_registers
PassthroughSlot(settings_crs) ==
    [instrument |-> "CloudCompile",
     settings |-> [NoSettings EXCEPT !.control_registers = settings_crs],
     control_registers |-> Some(<< <<0, Zero>> >>)]

PassthroughConfig(settings_crs) ==
    [slots |-> (1 :> PassthroughSlot(settings_crs)), order |-> <<1>>,
     routing |-> <<>>]

BackendConfigs ==
    {PassthroughConfig(None), PassthroughConfig(Some(0 :> Zero))}

BackendRegInputs == {0, 15}
BackendDelayInputs == {None, Some(0), Some(50)}
BackendFlagInputs == {<<TRUE, TRUE, TRUE>>, <<TRUE, FALSE, FALSE>>}

InitBackend == \E cfg \in BackendConfigs : InitState(cfg, FullDut)

NextBackend ==
    \/ Setup
    \/ SetupStep
    \/ \E r \in BackendRegInputs, v \in ValueInputs, d \in BackendDelayInputs :
            setup.complete /\ Issue("be_set", 1, r, v, NoFlags, d)
    \/ \E f \in BackendFlagInputs, d \in BackendDelayInputs :
            setup.complete /\ Issue("be_forge", 1, 0, Zero, f, d)
    \/ \E i \in DOMAIN calls : Fire(i)
    \/ Advance
    \/ \E ms \in IdleInputs : Idle(ms)

SpecBackend == InitBackend /\ [][NextBackend]_vars

-----------------------------------------------------------------------------
(* SpecEnable: the enable sequence of test_forge_control_sequence.  After    *)
(* setup the test task sets CR0 to 0x80000000, 0xC0000000 and 0xE0000000 in  *)
(* turn, each with a nonzero delay, awaiting each call before the next.      *)

EnableSlot == 1
EnableSequence == <<FORGE_READY, USER_ENABLED, FULLY_ENABLED>>
EnableFlags ==
    <<<<TRUE, FALSE, FALSE>>, <<TRUE, TRUE, FALSE>>, <<TRUE, TRUE, TRUE>>>>
EnableDelayInputs == {None, Some(50), Some(200)}

\* the next write of the sequence, by set_control_register or set_forge_control
EnableStep(op, delay_ms) ==
    /\ setup.complete
    /\ script < Len(EnableSequence)
    /\ \A i \in DOMAIN calls : calls[i].pc \in {"done", "raised"}
    /\ Start(op, EnableSlot, 0, EnableSequence[script + 1], EnableFlags[script + 1],
             delay_ms)
    /\ script' = script + 1

NextEnable ==
    \/ Setup
    \/ SetupStep
    \/ \E op \in BackendOps, d \in EnableDelayInputs : EnableStep(op, d)
    \/ \E i \in DOMAIN calls : Fire(i)
    \/ Advance
    \/ \E ms \in IdleInputs : Idle(ms)

SpecEnable == InitBackend /\ [][NextEnable]_vars

-----------------------------------------------------------------------------
(* SpecScope: the two slots of test_platform_routing_integration.  Slot 2 is *)
(* a CloudCompile, slot 1 an Oscilloscope capturing InputA, and Slot2OutD is *)
(* routed to Slot1InA; the device drives its outputs while the backend runs. *)

ScopeConfig ==
    [slots |->
        (2 :> [instrument |-> "CloudCompile", settings |-> NoSettings,
               control_registers |-> Some(<< <<0, {3, 2, 1, 0}>> >>)])
        @@
        (1 :> [instrument |-> "Oscilloscope",
               settings |-> [NoSettings EXCEPT !.channels = Some(<<InputA>>),
                                               !.sample_rate = Some(125000000),
                                               !.decimation = Some(1)],
               control_registers |-> None]),
     order |-> <<2, 1>>,
     routing |-> <<[source |-> Slot2OutD, destination |-> Slot1InA]>>]

\* raw values of a 16-bit output: 0, 200 and -200
DriveInputs == {0, 200, 65336}
DrivenSignals == {OutputD}
\* capture durations (ns)
DurationInputs == {8, 16}

InitScope == InitState(ScopeConfig, FullDut)

NextScope ==
    \/ Setup
    \/ SetupStep
    \/ \E d \in DurationInputs : Run(d)
    \/ \E i \in DOMAIN runs : FireRun(i)
    \/ \E n \in DrivenSignals, v \in DriveInputs : Drive(n, v)
    \/ Advance

SpecScope == InitScope /\ [][NextScope]_vars

-----------------------------------------------------------------------------
(* SpecSample: one Oscilloscope slot capturing OutputD, which holds a     *)
(* constant value; the backend runs it once, to completion.               *)

\* an Oscilloscope slot capturing OutputD at the given rate and decimation
SampleSlot(rate, decimation) ==
    [instrument |-> "Oscilloscope",
     settings |-> [NoSettings EXCEPT !.channels = Some(<<OutputD>>),
                                     !.sample_rate = Some(rate),
                                     !.decimation = Some(decimation)],
     control_registers |-> None]

SampleConfig(rate, decimation) ==
    [slots |-> (1 :> SampleSlot(rate, decimation)), order |-> <<1>>,
     routing |-> <<>>]

\* 125 MHz and 250 MHz: sample periods of 8 ns and 4 ns
SampleRateInputs == {125000000, 250000000}
DecimationInputs == {1, 2}
\* durations (ns): none, multiples of the tick and values between two ticks
SampleDurationInputs == {0, 8, 12, 16, 20}

\* a device whose OutputD holds the raw value v
ConstantDut(v) == [FullDut EXCEPT !.signal[OutputD] = v]

InitSample ==
    \E rate \in SampleRateInputs, k \in DecimationInputs, v \in DriveInputs :
        InitState(SampleConfig(rate, k), ConstantDut(v))

NextSample ==
    \/ Setup
    \/ \E d \in SampleDurationInputs : Run(d)
    \/ \E i \in DOMAIN runs : FireRun(i)
    \/ Advance

SpecSample == InitSample /\ [][NextSample]_vars

-----------------------------------------------------------------------------
(* SpecBind: one Oscilloscope slot configured to capture OutputD; the     *)
(* test body binds external channels, before, during and after a run of   *)
(* the backend.                                                           *)

CaptureSlot(channels) ==
    [instrument |-> "Oscilloscope",
     settings |-> [NoSettings EXCEPT !.channels = channels],
     control_registers |-> None]

CaptureConfig(channels) ==
    [slots |-> (1 :> CaptureSlot(channels)), order |-> <<1>>, routing |-> <<>>]

\* the names bound and the signals they are bound to
ExternalNameInputs == {InputA, OutputD}
ExternalHandleInputs == {SignalHandle(OutputD), SignalHandle(OutputA)}
BindDurationInputs == {8}

InitBind == InitState(CaptureConfig(Some(<<OutputD>>)), FullDut)

NextBind ==
    \/ Setup
    \/ \E n \in ExternalNameInputs, h \in ExternalHandleInputs :
            AddExternalChannel(1, n, h)
    \/ \E d \in BindDurationInputs : Run(d)
    \/ \E i \in DOMAIN runs : FireRun(i)
    \/ Advance

SpecBind == InitBind /\ [][NextBind]_vars

-----------------------------------------------------------------------------
(* SpecCapture: one Oscilloscope slot configured to capture OutputD; the  *)
(* test body runs the backend, stops the capture and binds InputA at any  *)
(* time.                                                                  *)

CaptureDurationInputs == {16}

InitCapture == InitState(CaptureConfig(Some(<<OutputD>>)), FullDut)

NextCapture ==
    \/ Setup
    \/ AddExternalChannel(1, InputA, SignalHandle(OutputD))
    \/ StopCapture(1)
    \/ \E d \in CaptureDurationInputs : Run(d)
    \/ \E i \in DOMAIN runs : FireRun(i)
    \/ Advance

SpecCapture == InitCapture /\ [][NextCapture]_vars

-----------------------------------------------------------------------------
(* SpecErrors: the calls that can fail.  Slot 1 has a bank and slot 3 has  *)
(* none; registers -1 and 16 are outside 0..15.                            *)

ErrorSlotInputs == {1, 3}
ErrorRegInputs == {-1, 0, 16}
ErrorDelayInputs == {Some(0), Some(50)}
ErrorInitialInputs == {<<>>, << <<0, FULLY_ENABLED>> >>}
ErrorFlags == <<TRUE, TRUE, FALSE>>

NextErrors ==
    \/ \E iv \in ErrorInitialInputs : calls = <<>> /\ AddSlot(1, iv)
    \/ \E s \in ErrorSlotInputs, r \in ErrorRegInputs, d \in ErrorDelayInputs :
            Issue("net_set", s, r, USER_ENABLED, NoFlags, d)
    \/ \E s \in ErrorSlotInputs, r \in ErrorRegInputs :
            Issue("be_set", s, r, USER_ENABLED, NoFlags, Some(0))
    \/ \E op \in GetOps, s \in ErrorSlotInputs, r \in ErrorRegInputs :
            Issue(op, s, r, Zero, NoFlags, None)
    \/ \E op \in ForgeOps, s \in ErrorSlotInputs :
            Issue(op, s, 0, Zero, ErrorFlags, Some(0))
    \/ \E op \in StatusOps \cup {"be_status"}, s \in ErrorSlotInputs :
            Issue(op, s, 0, Zero, NoFlags, None)
    \/ \E i \in DOMAIN calls : Fire(i)
    \/ Advance

SpecErrors == Init /\ [][NextErrors]_vars

-----------------------------------------------------------------------------
(* SpecTwin: a backend with two CloudCompile (passthrough) slots on one    *)
(* device.  The initial registers of slot 1 are given in the slot's        *)
(* control_registers, in its settings, or in both.                         *)

\* a CloudCompile slot with the given control_registers and settings['control_registers']
TwinSlot(slot_crs, settings_crs) ==
    [instrument |-> "CloudCompile",
     settings |-> [NoSettings EXCEPT !.control_registers = settings_crs],
     control_registers |-> slot_crs]

TwinConfig(slot_crs, settings_crs) ==
    [slots |-> (1 :> TwinSlot(slot_crs, settings_crs))
                @@ (2 :> TwinSlot(Some(<< <<1, Bit(0)>> >>), None)),
     order |-> <<1, 2>>,
     routing |-> <<>>]

TwinConfigs ==
    {TwinConfig(Some(<< <<0, FULLY_ENABLED>> >>), None),
     TwinConfig(Some(<< <<0, FULLY_ENABLED>> >>), Some(0 :> FULLY_ENABLED)),
     TwinConfig(None, Some(0 :> USER_ENABLED)),
     TwinConfig(None, None)}

TwinSlotInputs == {1, 2}
TwinRegInputs == {0, 1}
TwinDelayInputs == {Some(0), Some(50)}

InitTwin == \E cfg \in TwinConfigs : InitState(cfg, FullDut)

NextTwin ==
    \/ Setup
    \/ SetupStep
    \/ \E s \in TwinSlotInputs, r \in TwinRegInputs, d \in TwinDelayInputs :
            setup.complete /\ Issue("be_set", s, r, USER_ENABLED, NoFlags, d)
    \/ \E i \in DOMAIN calls : Fire(i)
    \/ Advance

-----------------------------------------------------------------------------
(* SpecAgain: one Oscilloscope slot capturing OutputD; the test body awaits *)
(* backend.run several times in a row, without clear_data or stop_capture.  *)

AgainDurationInputs == {0, 16, 32}

InitAgain ==
    \E rate \in SampleRateInputs, k \in DecimationInputs :
        InitState(SampleConfig(rate, k), ConstantDut(200))

NextAgain ==
    \/ Setup
    \/ \E d \in AgainDurationInputs : RunAgain(d)
    \/ \E i \in DOMAIN runs : FireRun(i)
    \/ Advance

SpecAgain == InitAgain /\ [][NextAgain]_vars

SpecTwin == InitTwin /\ [][NextTwin]_vars

-----------------------------------------------------------------------------
(* SpecRoute: setup of a backend whose slot 1 is an Oscilloscope, slot 2 a  *)
(* CloudCompile and slot 3 an instrument the registry does not know, on a   *)
(* device without OutputC, with routing lists of every kind of connection;  *)
(* after setup the test body runs the backend, writes to it (one call at a   *)
(* time) and tears it down.                                                  *)

\* f"Slot{n}{direction}{channel}" for a one-digit n
SlotPort(digit, direction, channel) == S_Slot \o <<digit>> \o direction \o <<channel>>
S_IN1  == <<"I", "N", "1">>
S_OUT1 == <<"O", "U", "T", "1">>
InputB == S_Input \o <<"B">>
InputD == S_Input \o <<"D">>

MokuConnection(source, destination) == [source |-> source, destination |-> destination]

\* a connection that setup binds, and connections it cannot bind: the device
\* lacks the source signal, the source slot has no model or is not configured,
\* the destination slot has no model or one without external channels, or one
\* side is a physical port
BoundConnection == MokuConnection(Slot2OutD, Slot1InA)
RouteConnections ==
    {BoundConnection,
     MokuConnection(SlotPort("2", S_Out, "C"), SlotPort("1", S_In, "B")),
     MokuConnection(SlotPort("3", S_Out, "A"), SlotPort("1", S_In, "B")),
     MokuConnection(SlotPort("4", S_Out, "A"), SlotPort("1", S_In, "B")),
     MokuConnection(SlotPort("2", S_Out, "A"), SlotPort("3", S_In, "A")),
     MokuConnection(SlotPort("1", S_Out, "A"), SlotPort("2", S_In, "A")),
     MokuConnection(S_IN1, Slot1InA),
     MokuConnection(Slot2OutD, S_OUT1),
     MokuConnection(SlotPort("2", S_In, "A"), SlotPort("1", S_In, "D")),
     MokuConnection(SlotPort("1", S_Out, "B"), SlotPort("1", S_In, "D"))}

RouteLists ==
    {<<c>> : c \in RouteConnections}
        \cup {<<>>,
              <<BoundConnection, MokuConnection(S_IN1, Slot1InA),
                MokuConnection(SlotPort("2", S_Out, "C"), SlotPort("1", S_In, "B")),
                MokuConnection(Slot2OutD, S_OUT1)>>,
              <<BoundConnection, MokuConnection(SlotPort("2", S_Out, "A"), Slot1InA)>>,
              <<BoundConnection, BoundConnection>>}

UnknownInstrument == "SpectrumAnalyzer"

RouteConfig(routing) ==
    [slots |->
        (2 :> [instrument |-> "CloudCompile", settings |-> NoSettings,
               control_registers |-> Some(<< <<0, FULLY_ENABLED>> >>)])
        @@
        (3 :> [instrument |-> UnknownInstrument, settings |-> NoSettings,
               control_registers |-> Some(<< <<0, Bit(0)>> >>)])
        @@
        (1 :> [instrument |-> "Oscilloscope",
               settings |-> [NoSettings EXCEPT !.channels = Some(<<InputA>>)],
               control_registers |-> None]),
     order |-> <<2, 3, 1>>,
     routing |-> routing]

\* a device exposing Control0..Control15 and OutputA, OutputB, OutputD
RouteDut == [FullDut EXCEPT !.signal = [n \in {OutputA, OutputB, OutputD} |-> 0]]

RouteDurationInputs == {8}
RouteFlags == <<TRUE, FALSE, FALSE>>

\* (mutant) teardown stops nothing
StopCapturesNone == osc

\* the loop of teardown: stop_capture() on every simulator that has the
\* method, which the oscilloscopes have and the CloudCompile simulators lack
StopCaptures == [s \in DOMAIN osc |-> [osc[s] EXCEPT !.capture_active = FALSE]]

\* backend.teardown(): stop_capture on every simulator that has it
Teardown ==
    /\ setup.complete
    /\ osc' = StopCaptures
    /\ UNCHANGED <<now, netVars, calls, beVars, dut, runs, requests, script>>

\* backend.teardown() as the last call of the test body, entered in the
\* history once for every oscilloscope
TeardownLast ==
    /\ setup.complete
    /\ script = 0
    /\ osc' = StopCaptures
    /\ requests' = requests \o
            [k \in DOMAIN SimulatorOrder(config, osc) |->
                Request("teardown", SimulatorOrder(config, osc)[k], <<>>,
                        SignalHandle(<<>>), now)]
    /\ script' = script + 1
    /\ UNCHANGED <<now, netVars, calls, beVars, dut, runs>>

InitRoute == \E routing \in RouteLists : InitState(RouteConfig(routing), RouteDut)

NextRoute ==
    \/ Setup
    \/ SetupStep
    \/ \E d \in RouteDurationInputs : SuspendedCalls = {} /\ Run(d)
    \/ \E i \in DOMAIN runs : FireRun(i)
    \/ /\ setup.complete
       /\ SuspendedRuns = {}
       /\ Issue("be_forge", 2, 0, Zero, RouteFlags, Some(0))
    \/ \E i \in DOMAIN calls : Fire(i)
    \/ Teardown
    \/ Advance

SpecRoute == InitRoute /\ [][NextRoute]_vars

-----------------------------------------------------------------------------
(* SpecParse: the backend of SpecRoute set up with one connection whose two *)
(* identifiers are drawn from well-formed and malformed names.              *)

ParseSources ==
    {Slot2OutD,
     Slot2OutD \o <<"x">>,
     Slot2OutD \o <<"1">>,
     SlotPort("0", S_Out, "A"),
     S_Slot \o <<"0", "2">> \o S_Out \o <<"D">>,
     S_Slot \o <<"1", "2">> \o S_Out \o <<"A">>,
     S_Slot \o <<"2">> \o S_Out \o <<"E">>,
     S_Slot \o <<"2">> \o S_Out,
     S_Slot \o S_Out \o <<"A">>,
     <<"s", "l", "o", "t", "2">> \o S_Out \o <<"D">>,
     <<" ">> \o Slot2OutD,
     S_IN1}

ParseDestinations ==
    {Slot1InA,
     Slot1InA \o <<"B">>,
     SlotPort("1", S_In, "D"),
     S_Slot \o <<"1">> \o <<"i", "n", "A">>,
     S_OUT1}

InitParse ==
    \E src \in ParseSources, dst \in ParseDestinations :
        InitState(RouteConfig(<<MokuConnection(src, dst)>>), RouteDut)

NextParse ==
    \/ Setup
    \/ SetupStep
    \/ Advance

SpecParse == InitParse /\ [][NextParse]_vars

-----------------------------------------------------------------------------
(* SpecApply: setup() of a backend with one CloudCompile slot whose settings *)
(* carry control registers, on a device whose Control ports hold zero or     *)
(* a leftover value.                                                         *)

ApplySettingsInputs ==
    {None,
     Some(0 :> FULLY_ENABLED),
     Some(0 :> USER_ENABLED @@ 1 :> Bit(0)),
     Some(0 :> {31, 29, 3} @@ 15 :> {7, 0}),
     Some(3 :> Bit(4))}

\* a device whose Control ports all hold the value v before setup
LeftoverDut(v) == [FullDut EXCEPT !.control = [r \in Registers |-> v]]

ApplyLeftoverInputs == {Zero, FULLY_ENABLED \cup Bit(5)}

InitApply ==
    \E crs \in ApplySettingsInputs, v \in ApplyLeftoverInputs :
        InitState(PassthroughConfig(crs), LeftoverDut(v))

NextApply ==
    \/ Setup
    \/ SetupStep
    \/ Advance

SpecApply == InitApply /\ [][NextApply]_vars

-----------------------------------------------------------------------------
(* SpecStatus: a backend with one CloudCompile slot on devices that have    *)
(* all, some or none of the ports Status0..Status15, readable or holding an *)
(* unresolved value; the test body reads status registers.                  *)

StatusPort(readable, value) == [readable |-> readable, value |-> value]

\* the Status ports of a device: index -> port
StatusPortInputs ==
    {<<>>,
     [r \in Registers |-> StatusPort(TRUE, Bit(r))],
     [r \in Registers |-> StatusPort(r /= 1, Bit(r))],
     [r \in 0 .. 3 |-> StatusPort(TRUE, Bit(r))],
     [r \in {0, 15} |-> StatusPort(r = 0, FULLY_ENABLED)]}

StatusRegInputs == {0, 1, 15}

InitStatus ==
    \E ports \in StatusPortInputs :
        InitState(PassthroughConfig(None), [FullDut EXCEPT !.status = ports])

NextStatus ==
    \/ Setup
    \/ SetupStep
    \/ \E r \in StatusRegInputs :
            setup.complete /\ Issue("be_status", 1, r, Zero, NoFlags, None)
    \/ Advance

SpecStatus == InitStatus /\ [][NextStatus]_vars

-----------------------------------------------------------------------------
(* SpecTeardown: a backend with a CloudCompile slot and an Oscilloscope slot *)
(* capturing OutputD; the test body starts runs and then calls teardown(),   *)
(* before, between or after the ticks of the runs.                           *)

TeardownConfig(rate, decimation) ==
    [slots |-> (2 :> PassthroughSlot(None)) @@ (1 :> SampleSlot(rate, decimation)),
     order |-> <<2, 1>>,
     routing |-> <<>>]

TeardownDurationInputs == {16, 24}

InitTeardown ==
    \E rate \in SampleRateInputs, k \in DecimationInputs :
        InitState(TeardownConfig(rate, k), ConstantDut(200))

NextTeardown ==
    \/ Setup
    \/ SetupStep
    \/ \E d \in TeardownDurationInputs : script = 0 /\ Run(d)
    \/ \E i \in DOMAIN runs : FireRun(i)
    \/ TeardownLast
    \/ Advance

SpecTeardown == InitTeardown /\ [][NextTeardown]_vars

-----------------------------------------------------------------------------
(* SpecFlags: the backend of SpecBackend written through                    *)
(* SimulationBackend.set_control_register only, registers 0 and 15, by      *)
(* concurrent tasks.                                                        *)

FlagsDelayInputs == {Some(0), Some(50)}

NextFlags ==
    \/ Setup
    \/ SetupStep
    \/ \E r \in BackendRegInputs, v \in ValueInputs, d \in FlagsDelayInputs :
            setup.complete /\ Issue("be_set", 1, r, v, NoFlags, d)
    \/ \E i \in DOMAIN calls : Fire(i)
    \/ Advance

SpecFlags == InitBackend /\ [][NextFlags]_vars

-----------------------------------------------------------------------------
(* SpecVerify: one Oscilloscope slot capturing OutputD while the device      *)
(* changes it between the ticks; after the run the test body calls           *)
(* verify_incrementing on windows of the buffer.                             *)

VerifyDriveInputs == {0, 1, 3, 7}
VerifyStartInputs == {0, 1}
VerifyCountInputs == {1, 2, 3}
VerifyDurationInputs == {16}

InitVerify ==
    \E v \in VerifyDriveInputs :
        InitState(SampleConfig(DefaultSampleRate, 1), ConstantDut(v))

NextVerify ==
    \/ Setup
    \/ \E d \in VerifyDurationInputs : Run(d)
    \/ \E i \in DOMAIN runs : FireRun(i)
    \/ \E v \in VerifyDriveInputs :
            SuspendedRuns /= {} /\ (\A i \in SuspendedRuns : runs[i].due > now)
                /\ Drive(OutputD, v)
    \/ \E start \in VerifyStartInputs, count \in VerifyCountInputs :
            VerifyIncrementingCall(1, OutputD, start, count)
    \/ Advance

SpecVerify == InitVerify /\ [][NextVerify]_vars

-----------------------------------------------------------------------------
(* SpecPriority: one Oscilloscope slot capturing OutputD on a device whose   *)
(* outputs hold different values; the test body binds the name OutputD to    *)
(* other signals of the device, before, during and after a run.              *)

\* a device with OutputA = 100, OutputB = 50, OutputD = 200
PriorityDut ==
    [FullDut EXCEPT !.signal = (OutputA :> 100) @@ (OutputB :> 50) @@ (OutputD :> 200)
                                    @@ FullDut.signal]

PriorityHandleInputs == {SignalHandle(OutputA), SignalHandle(OutputB)}
PriorityDurationInputs == {16}

InitPriority == InitState(CaptureConfig(Some(<<OutputD>>)), PriorityDut)

NextPriority ==
    \/ Setup
    \/ \E h \in PriorityHandleInputs : AddExternalChannel(1, OutputD, h)
    \/ \E d \in PriorityDurationInputs : Run(d)
    \/ \E i \in DOMAIN runs : FireRun(i)
    \/ Advance

SpecPriority == InitPriority /\ [][NextPriority]_vars

-----------------------------------------------------------------------------
(* Vocabulary of the properties *)

\* v mod 2^32
Low32(v) == v \cap (0..31)
Is32Bit(v) == v \subseteq 0..31

\* In this step the network write of call i is applied to its bank (its Timer
\* fired, or it had no delay to wait).
WriteApplied(i) ==
    /\ i \in DOMAIN calls'
    /\ calls'[i].pc \in {"done", "propagate"}
    /\ i \in DOMAIN calls => calls[i].pc = "delay"

\* The write of call i has been applied.
Applied(c) == c.pc \in {"done", "propagate"}

\* In this step slot s gets a (new) bank from add_slot.
SlotAdded(s) ==
    /\ s \in DOMAIN slots'
    /\ calls' = calls
    /\ slots' /= slots
    /\ \A t \in DOMAIN slots : t /= s => (t \in DOMAIN slots' /\ slots'[t] = slots[t])

\* The delay the caller asked of the network interface, in ns: delay_ms, or
\* the interface's default of 200 ms when none is given.
AskedDelayNs(c) ==
    (IF c.delay_ms = None THEN 200 ELSE c.delay_ms[1]) * 1000000

\* The virtual time at which the delay of call c ends.
DelayEnd(c) == IF AskedDelayNs(c) > 0 THEN c.issued + AskedDelayNs(c) ELSE c.issued

Overlap(c, d) ==
    /\ c.issued < DelayEnd(d)
    /\ d.issued < DelayEnd(c)

-----------------------------------------------------------------------------
(* C1: once set_control_register(S, i, v, delay) has completed,           *)
(* get_control_register(S, i) returns v (v a 32-bit register value; a     *)
(* wider v reads back as v mod 2^32), and the register keeps that value   *)
(* until another write to the same register is applied: the value held    *)
(* before the write is not read again.                                    *)
C1_CompletedWriteIsRead ==
    [][ /\ \A i \in DOMAIN calls' :
              WriteApplied(i) =>
                LET c == calls'[i]
                    read == NetGetControlRegister(slots', c.slot, c.register)
                IN  /\ read = Low32(c.value)
                    /\ Is32Bit(c.value) => read = c.value
        /\ \A s \in DOMAIN slots : \A r \in Registers :
              (s \in DOMAIN slots' /\ slots'[s].registers[r] /= slots[s].registers[r])
                 => \/ \E i \in DOMAIN calls' :
                          /\ WriteApplied(i)
                          /\ calls'[i].slot = s
                          /\ calls'[i].register = r
                    \/ SlotAdded(s)
      ]_vars

\* a delayed write of a 32-bit value has completed and replaced another value
C1_Witness ==
    \E i \in DOMAIN calls :
        LET c == calls[i]
        IN  /\ c.pc = "done"
            /\ c.returned > c.issued
            /\ Is32Bit(c.value)
            /\ slots[c.slot].registers[c.register] = c.value
            /\ \E k \in DOMAIN slots[c.slot].access_log :
                  LET e == slots[c.slot].access_log[k]
                  IN  e.register = c.register /\ e.old_value /= c.value

-----------------------------------------------------------------------------
(* C2: a set_control_register call issued at time t with a delay d > 0    *)
(* (200 ms when none is given) suspends without touching the bank; while  *)
(* it waits, virtual time does not pass t + d and its register changes    *)
(* only by another call's write; its write is applied at exactly t + d,   *)
(* as one whole value (v mod 2^32); and it returns no earlier than t + d. *)
C2_WriteAfterDelay ==
    [][ \A i \in DOMAIN calls' :
          LET c == calls'[i]
          IN  (AskedDelayNs(c) > 0 /\ c.pc /= "raised") =>
                /\ i \notin DOMAIN calls => (c.pc = "delay" /\ slots' = slots)
                /\ c.pc = "delay" => now' <= DelayEnd(c)
                /\ (i \in DOMAIN calls /\ c.pc = "delay"
                      /\ slots'[c.slot].registers[c.register]
                            /= slots[c.slot].registers[c.register])
                     => \/ \E j \in DOMAIN calls' \ {i} :
                              /\ WriteApplied(j)
                              /\ calls'[j].slot = c.slot
                              /\ calls'[j].register = c.register
                        \/ SlotAdded(c.slot)
                /\ WriteApplied(i) =>
                     /\ now' = DelayEnd(c)
                     /\ slots'[c.slot].registers[c.register] = Low32(c.value)
                /\ c.pc = "done" => c.returned >= DelayEnd(c)
      ]_vars

\* a call given no delay, issued after time 0, has returned 200 ms later
C2_Witness ==
    \E i \in DOMAIN calls :
        LET c == calls[i]
        IN  /\ c.delay_ms = None
            /\ c.issued > 0
            /\ c.pc = "done"
            /\ c.returned = c.issued + 200000000
            /\ now = c.returned
            /\ slots[c.slot].registers[c.register] = Low32(c.value)

-----------------------------------------------------------------------------
SameRegister(c, d) == c.slot = d.slot /\ c.register = d.register

\* The write of call j is applied before that of call i: j's delay ends
\* earlier, or j had returned before i was issued.
CompletesBefore(j, i) ==
    /\ Applied(calls[j])
    /\ \/ DelayEnd(calls[j]) < DelayEnd(calls[i])
       \/ j \in calls[i].after

(* C3: of the set_control_register calls to one register, the one whose   *)
(* delay completes last leaves its value in the register, whatever the    *)
(* order in which the calls were issued; when each call is awaited before *)
(* the next is issued, that is the last call issued.                      *)
C3_LastCompletionWins ==
    \A i \in DOMAIN calls :
        LET c == calls[i]
        IN  (/\ Applied(c)
             /\ \A j \in DOMAIN calls \ {i} :
                   (SameRegister(calls[j], c) /\ calls[j].pc /= "raised")
                      => CompletesBefore(j, i))
            => slots[c.slot].registers[c.register] = Low32(c.value)

\* two writes of different values to one register were in flight at once; the
\* one issued first completed last, and its value is the one left
C3_Witness ==
    \E i, j \in DOMAIN calls :
        LET c == calls[i]
            d == calls[j]
        IN  /\ i < j
            /\ SameRegister(c, d)
            /\ Overlap(c, d)
            /\ c.pc = "done" /\ d.pc = "done"
            /\ DelayEnd(d) < DelayEnd(c)
            /\ Low32(c.value) /= Low32(d.value)
            /\ slots[c.slot].registers[c.register] = Low32(c.value)

-----------------------------------------------------------------------------
(* C4: two set_control_register calls running concurrently on different   *)
(* slots both take effect: each returns when its own delay ends, each     *)
(* slot's register holds the value written to that slot, and each bank    *)
(* has logged only the writes made to its own slot.                       *)
C4_DifferentSlotsIndependent ==
    \A i, j \in DOMAIN calls :
        LET c == calls[i]
            d == calls[j]
        IN  (/\ c.slot /= d.slot
             /\ Overlap(c, d)
             /\ c.op = "net_set" /\ d.op = "net_set"
             /\ c.pc = "done" /\ d.pc = "done")
            => /\ c.returned = DelayEnd(c)
               /\ (\A k \in DOMAIN calls \ {i} :
                        SameRegister(calls[k], c) => calls[k].pc = "raised")
                    => slots[c.slot].registers[c.register] = Low32(c.value)
               /\ \A k \in DOMAIN slots[c.slot].access_log :
                     \E m \in DOMAIN calls :
                        /\ calls[m].slot = c.slot
                        /\ calls[m].register = slots[c.slot].access_log[k].register
                        /\ calls[m].value = slots[c.slot].access_log[k].new_value

\* the test's case: slots 1 and 2 written concurrently, same register, different
\* values, both complete
C4_Witness ==
    \E i, j \in DOMAIN calls :
        LET c == calls[i]
            d == calls[j]
        IN  /\ c.slot = 1 /\ d.slot = 2
            /\ c.register = d.register
            /\ Overlap(c, d)
            /\ c.pc = "done" /\ d.pc = "done"
            /\ Low32(c.value) /= Low32(d.value)
            /\ slots[1].registers[c.register] = Low32(c.value)
            /\ slots[2].registers[d.register] = Low32(d.value)

-----------------------------------------------------------------------------
(* C5: masking law.  A value X written through add_slot's initial values  *)
(* or through set_register is stored as X mod 2^32: add_slot(S, {0: X})   *)
(* followed by get_control_register(S, 0) returns X & 0xFFFFFFFF for      *)
(* every 64-bit X, and every register of every bank is in [0, 2^32).      *)
C5_MaskingLaw ==
    \A s \in DOMAIN slots :
        LET bank == slots[s]
            log == bank.access_log
            WritesTo(r) == {k \in DOMAIN log : log[k].register = r}
            Last(r) == CHOOSE k \in WritesTo(r) : \A m \in WritesTo(r) : m <= k
        IN  \A r \in Registers :
                /\ Is32Bit(bank.registers[r])
                /\ NetGetControlRegister(slots, s, r) =
                        IF WritesTo(r) = {} THEN Zero
                        ELSE Low32(log[Last(r)].new_value)

\* a slot was added with a value having bits above bit 31, and reads back
\* without them
C5_Witness ==
    \E s \in DOMAIN slots :
        /\ Len(slots[s].access_log) = 1
        /\ LET x == slots[s].access_log[1].new_value
           IN  /\ 63 \in x /\ 32 \in x /\ 31 \in x /\ 0 \in x
               /\ NetGetControlRegister(slots, s, 0) = x \ {32, 63}

-----------------------------------------------------------------------------
\* the writes of the enable sequence that have been applied to the bank
EnableApplied == {i \in DOMAIN calls : Applied(calls[i])}

\* what a read of CR0 of the enable slot returns
EnableRead == NetGetControlRegister(slots, EnableSlot, 0)

(* C6: end-to-end enable sequence.  For a passthrough slot set up with    *)
(* CR0 = 0, while the orchestrator sets CR0 to 0x80000000, 0xC0000000 and *)
(* 0xE0000000 in turn (nonzero delays, each call awaited), is_enabled()   *)
(* is false at power-on, after the first and after the second write and   *)
(* true after the third, and a read of CR0 always returns the value of    *)
(* the last write whose delay has ended (0 before the first), never the   *)
(* value of a write still in its delay.                                   *)
C6_EnableSequence ==
    /\ EnableSlot \in DOMAIN cc =>
          /\ (Len(calls) < 3 \/ calls[3].pc = "delay") => ~IsEnabled(cc[EnableSlot])
          /\ \A k \in 1..2 : (Len(calls) = k /\ calls[k].pc = "done")
                                => ~IsEnabled(cc[EnableSlot])
          /\ (Len(calls) = 3 /\ calls[3].pc = "done") => IsEnabled(cc[EnableSlot])
    /\ EnableSlot \in DOMAIN slots =>
          /\ EnableRead = IF EnableApplied = {} THEN Zero
                          ELSE EnableSequence[Max(EnableApplied)]
          /\ \A i \in DOMAIN calls :
                calls[i].pc = "delay" => EnableRead /= EnableSequence[i]

\* the third write has returned, some time after the second, and the model is
\* enabled with CR0 = 0xE0000000
C6_Witness ==
    /\ setup.complete
    /\ Len(calls) = 3
    /\ \A k \in 1..3 : calls[k].pc = "done" /\ calls[k].returned > calls[k].issued
    /\ calls[3].issued >= calls[2].returned
    /\ IsEnabled(cc[EnableSlot])
    /\ EnableRead = FULLY_ENABLED

-----------------------------------------------------------------------------
(* C7: get_forge_status(S).global_enable is true exactly when bits 31, 30 *)
(* and 29 of register 0 of slot S are all 1; the other bits of register 0 *)
(* do not influence it.                                                   *)
C7_GlobalEnable ==
    \A s \in DOMAIN slots :
        LET cr0 == slots[s].registers[0]
            st == GetForgeStatus(slots, s)
        IN  /\ st.global_enable = ({31, 30, 29} \subseteq cr0)
            /\ cr0 = FULLY_ENABLED => st.global_enable
            /\ (\E b \in {31, 30, 29} : cr0 = FULLY_ENABLED \ {b})
                    => ~st.global_enable
            /\ st.forge_ready = (31 \in cr0)
            /\ st.user_enable = (30 \in cr0)
            /\ st.clk_enable = (29 \in cr0)

\* one slot holds 0xE0000000 and reports global_enable, another holds
\* 0xC0000001 (bit 29 cleared, bit 0 set) and does not
C7_Witness ==
    /\ DOMAIN slots = {1, 2}
    /\ slots[1].registers[0] = FULLY_ENABLED
    /\ GetForgeStatus(slots, 1).global_enable
    /\ slots[2].registers[0] = {31, 30, 0}
    /\ ~GetForgeStatus(slots, 2).global_enable

-----------------------------------------------------------------------------
\* the three flags get_forge_status reports for a slot
StatusFlags(ss, s) ==
    <<GetForgeStatus(ss, s).forge_ready, GetForgeStatus(ss, s).user_enable,
      GetForgeStatus(ss, s).clk_enable>>

(* C8: set_forge_control changes the three flags in one register write.   *)
(* Until its write is applied the call changes nothing of the bank; the   *)
(* step that applies it appends exactly one entry (a write of register 0) *)
(* to the slot's access log and takes the flags from the combination held *)
(* before to the requested one; after it the call changes nothing more.   *)
C8_ForgeControlOneWrite ==
    [][ \A i \in DOMAIN calls' :
          LET c == calls'[i]
              log == slots[c.slot].access_log
              log2 == slots'[c.slot].access_log
          IN  (c.op = "net_forge" /\ c.pc /= "raised") =>
                /\ (i \notin DOMAIN calls /\ c.pc = "delay") => slots' = slots
                /\ WriteApplied(i) =>
                     /\ Len(log2) = Len(log) + 1
                     /\ SubSeq(log2, 1, Len(log)) = log
                     /\ log2[Len(log2)].register = 0
                     /\ StatusFlags(slots', c.slot) = c.flags
                /\ (i \in DOMAIN calls /\ ~WriteApplied(i)
                        /\ StatusFlags(slots', c.slot) /= StatusFlags(slots, c.slot))
                     => \E j \in DOMAIN calls' \ {i} :
                            WriteApplied(j) /\ calls'[j].slot = c.slot
      ]_vars

\* a delayed set_forge_control has changed a slot's flags from (1,1,1) to the
\* requested (1,0,1) with one log entry
C8_Witness ==
    \E i \in DOMAIN calls :
        LET c == calls[i]
            log == slots[c.slot].access_log
        IN  /\ c.op = "net_forge"
            /\ c.pc = "done"
            /\ c.returned > c.issued
            /\ c.flags = <<TRUE, FALSE, TRUE>>
            /\ StatusFlags(slots, c.slot) = c.flags
            /\ Len(log) = 2
            /\ TestBit(log[2].old_value, 30)

-----------------------------------------------------------------------------
\* self.control_registers of the passthrough model of a slot, after the step
RecordedNext(slot, register) ==
    DictGet(CCControlRegisters([cc |-> cc', config |-> config'], slot), register, Zero)

(* C9: when SimulationBackend.set_control_register(slot, index, value,    *)
(* delay) completes on a passthrough slot, the device's Control<index>,   *)
(* the value the passthrough model records for the index (applied_crs and *)
(* get_control_register) and NetworkCRInterface.get_control_register(slot,*)
(* index) are all equal.                                                  *)
C9_BackendWriteConsistent ==
    [][ \A i \in DOMAIN calls' :
          LET c == calls'[i]
              net == NetGetControlRegister(slots', c.slot, c.register)
          IN  (/\ c.op = "be_set"
               /\ c.pc = "done"
               /\ i \in DOMAIN calls /\ calls[i].pc = "propagate"
               /\ c.slot \in DOMAIN cc')
              => /\ dut'.control[c.register] = net
                 /\ c.register \in DOMAIN cc'[c.slot].applied_crs
                 /\ cc'[c.slot].applied_crs[c.register] = net
                 /\ RecordedNext(c.slot, c.register) = net
      ]_vars

-----------------------------------------------------------------------------
\* what the oscilloscope of slot 1 has recorded on InputA
RoutedSamples(oscs) == oscs[1].data[InputA]

(* C10: with the routing connection Slot2OutD -> Slot1InA, the            *)
(* oscilloscope of slot 1 holds the device's OutputD signal itself as its *)
(* external channel InputA, and every sample it records on InputA is the  *)
(* (signed) value OutputD has at the tick of the sample, appended in      *)
(* order, while the device drives OutputD through a sequence of values.   *)
C10_RoutedChannelIsLive ==
    [][ 1 \in DOMAIN osc =>
          /\ InputA \in DOMAIN osc[1].external_channels
          /\ osc[1].external_channels[InputA] = [signal |-> OutputD]
          /\ RoutedSamples(osc') /= RoutedSamples(osc) =>
                /\ RoutedSamples(osc') =
                        Append(RoutedSamples(osc),
                               <<now, IF dut.signal[OutputD] >= 32768
                                      THEN dut.signal[OutputD] - 65536
                                      ELSE dut.signal[OutputD]>>)
                /\ dut' = dut
                /\ now' = now
      ]_vars

\* three samples of InputA, taken at three ticks, with the three values OutputD
\* was driven to: 0, then -200, then 200
C10_Witness ==
    /\ 1 \in DOMAIN osc
    /\ Len(RoutedSamples(osc)) = 3
    /\ RoutedSamples(osc)[1][2] = 0
    /\ RoutedSamples(osc)[2][2] = -200
    /\ RoutedSamples(osc)[3][2] = 200
    /\ RoutedSamples(osc)[1][1] < RoutedSamples(osc)[2][1]
    /\ RoutedSamples(osc)[2][1] < RoutedSamples(osc)[3][1]
    /\ dut.signal[OutputA] /= dut.signal[OutputD]

-----------------------------------------------------------------------------
\* the run tasks of the oscilloscope of a slot
OscRuns(slot) == {i \in DOMAIN runs : runs[i].kind = "osc" /\ runs[i].slot = slot}

Abs(x) == IF x < 0 THEN -x ELSE x

(* C11: sampling determinism.  For a channel whose signal holds the       *)
(* constant value V, run(D) with sample period P and decimation K, run to *)
(* completion on an empty buffer, captures n samples with                 *)
(* |n - floor(D / (P*K))| <= 1, and every captured value equals V.        *)
C11_SampleCount ==
    \A s \in DOMAIN osc :
        (OscRuns(s) /= {} /\ \A i \in OscRuns(s) : runs[i].pc = "done"
                          /\ Cardinality(OscRuns(s)) = 1)
        => LET o == osc[s]
               r == runs[CHOOSE i \in OscRuns(s) : TRUE]
               samples == o.data[OutputD]
               v == dut.signal[OutputD]
           IN  /\ Abs(Len(samples)
                        - (r.duration_ns \div (o.sample_period_ns * o.decimation))) <= 1
               /\ \A k \in DOMAIN samples :
                     samples[k][2] = IF v >= 32768 THEN v - 65536 ELSE v

-----------------------------------------------------------------------------
\* the number of times x occurs in a list
Count(seq, x) == Cardinality({i \in DOMAIN seq : seq[i] = x})

\* this step is a call op made by the test body on a simulator
Requested(op) ==
    /\ Len(requests') = Len(requests) + 1
    /\ requests'[Len(requests')].op = op

(* C12: routing idempotence.  add_external_channel("X", ref) leaves the   *)
(* channel list containing "X" exactly once (appended only if it was not  *)
(* in the list, configured channels included), one capture buffer for "X" *)
(* with the samples it had, and the binding equal to ref; called again    *)
(* with the same reference it changes nothing.                            *)
C12_BindingIdempotent ==
    [][ Requested("add_external_channel") =>
          LET q == requests'[Len(requests')]
              before == OscChannels(config, osc[q.slot], q.slot)
              after == OscChannels(config', osc'[q.slot], q.slot)
          IN  /\ Count(after, q.channel_name) = 1
              /\ q.channel_name \in Range(before) => after = before
              /\ q.channel_name \in DOMAIN osc'[q.slot].data
              /\ \A ch \in DOMAIN osc[q.slot].data :
                    osc'[q.slot].data[ch] = osc[q.slot].data[ch]
              /\ osc'[q.slot].external_channels[q.channel_name] = q.handle
              /\ (/\ q.channel_name \in DOMAIN osc[q.slot].external_channels
                  /\ osc[q.slot].external_channels[q.channel_name] = q.handle)
                 => osc' = osc /\ config' = config
      ]_vars

\* InputA was bound twice to the same signal, a sample of it taken in between,
\* and the channel list holds InputA once
C12_Witness ==
    /\ Len(requests) = 2
    /\ requests[1].op = "add_external_channel"
    /\ requests[2].op = "add_external_channel"
    /\ requests[1].channel_name = InputA
    /\ requests[2].channel_name = InputA
    /\ requests[1].handle = requests[2].handle
    /\ requests[1].t < requests[2].t
    /\ Len(osc[1].data[InputA]) >= 1
    /\ osc[1].data[InputA][1][1] < requests[2].t
    /\ Count(OscChannels(config, osc[1], 1), InputA) = 1

-----------------------------------------------------------------------------
(* C13, C14: failing calls, under SpecErrors *)

\* the calls that reach set_register / get_register with the register they
\* were given
BankOps == {"net_set", "be_set"} \cup GetOps

\* call i ends in this step
Ends(i) ==
    /\ i \in DOMAIN calls'
    /\ calls'[i].pc \in {"done", "raised"}
    /\ (i \in DOMAIN calls => calls[i].pc \notin {"done", "raised"})

\* C13: set_register and get_register called with an index outside 0..15 fail
\* with an error and leave every register value and the access log as they
\* were before the call
C13_OutOfRangeLeavesBank ==
    [][ \A i \in DOMAIN calls' :
            ( /\ Ends(i)
              /\ calls'[i].op \in BankOps
              /\ calls'[i].slot \in DOMAIN slots
              /\ ~RegInRange(calls'[i].register) )
            => /\ calls'[i].pc = "raised"
               /\ calls'[i].result = None
               /\ slots' = slots ]_vars

\* a delayed write and a read of slot 1 have both failed on a register outside
\* 0..15, the bank holding a logged write from before
C13_Witness ==
    /\ 1 \in DOMAIN slots
    /\ slots[1].registers[0] = FULLY_ENABLED
    /\ Len(slots[1].access_log) = 1
    /\ \E i, j \in DOMAIN calls :
          /\ calls[i].op = "net_set" /\ calls[i].slot = 1
          /\ calls[i].register = 16 /\ calls[i].pc = "raised"
          /\ calls[i].returned > calls[i].issued
          /\ calls[j].op = "net_get" /\ calls[j].slot = 1
          /\ calls[j].register = -1 /\ calls[j].pc = "raised"

\* C14: every network-interface and backend operation that names a slot with
\* no register bank fails instead of returning a default result
C14_UnknownSlotFails ==
    \A i \in DOMAIN calls :
        (calls[i].pc \in {"done", "raised"} /\ calls[i].slot \notin DOMAIN slots)
        => calls[i].pc = "raised"

-----------------------------------------------------------------------------
(* C15: add_slot on a slot that has a bank, under SpecBits (where the only *)
(* steps that leave `calls` alone are add_slot calls)                      *)

\* C15 (as stated): add_slot on a slot that already has a bank fails, leaving the
\* existing bank's register values and access log unchanged
C15_DuplicateSlotFails ==
    [][ calls' = calls => \A s \in DOMAIN slots : slots'[s] = slots[s] ]_vars

\* C15 (amended): add_slot on a slot that already has a bank replaces it by a
\* fresh bank holding only the initial values (here register 0): the other
\* registers are 0, the log holds just the initial write, whose old value is 0;
\* the banks of the other slots are unchanged
C15_AddSlotReinitialises ==
    [][ (calls' = calls /\ slots' /= slots)
        => \E s \in SlotInputs :
              /\ DOMAIN slots' = DOMAIN slots \cup {s}
              /\ \A t \in DOMAIN slots \ {s} : slots'[t] = slots[t]
              /\ Len(slots'[s].access_log) = 1
              /\ slots'[s].access_log[1].old_value = Zero
              /\ slots'[s].access_log[1].register = 0
              /\ slots'[s].registers[0] = Low32(slots'[s].access_log[1].new_value)
              /\ \A r \in Registers \ {0} : slots'[s].registers[r] = Zero ]_vars

\* slot 1 was written through set_control_register (register 1), then added
\* again: the write is gone from the registers and from the log
C15_Witness ==
    /\ 1 \in DOMAIN slots
    /\ \E i \in DOMAIN calls :
          /\ calls[i].op = "net_set" /\ calls[i].slot = 1 /\ calls[i].pc = "done"
          /\ calls[i].register = 1 /\ Low32(calls[i].value) /= Zero
    /\ slots[1].registers[1] = Zero
    /\ Len(slots[1].access_log) = 1

-----------------------------------------------------------------------------
(* C16, C17: the capture buffers, under SpecCapture *)

\* the timestamps of a buffer, in buffer order
NonDecreasing(samples) ==
    \A k \in 1..(Len(samples) - 1) : samples[k][1] <= samples[k + 1][1]
Increasing(samples) ==
    \A k \in 1..(Len(samples) - 1) : samples[k][1] < samples[k + 1][1]

EffectivePeriod(o) == o.sample_period_ns * o.decimation

\* run i of the oscilloscope of request q was suspended on its Timer when q was
\* made, and no other run of that oscilloscope was in flight then or started since
AloneAt(q, i) ==
    /\ i \in q.suspended
    /\ i \in OscRuns(q.slot)
    /\ \A j \in OscRuns(q.slot) \ {i} :
          j \notin q.suspended /\ runs[j].pc = "done" /\ runs[j].due <= q.t

\* C17: stop_capture() called while run() is suspended between ticks does not
\* interrupt the wait: the run ends at its next tick, which lies on the tick
\* grid and within one samplePeriod * decimation of the request, and no sample
\* is appended after the request
C17_StopAtNextTick ==
    \A k \in DOMAIN requests :
        requests[k].op = "stop_capture"
        => \A i \in DOMAIN runs :
              AloneAt(requests[k], i)
              => LET q == requests[k]
                     r == runs[i]
                     o == osc[q.slot]
                 IN  /\ q.t <= r.due
                     /\ r.due <= q.t + EffectivePeriod(o)
                     /\ (r.due - r.start_time) % EffectivePeriod(o) = 0
                     /\ o.total_samples = q.total_samples
                     /\ r.pc = "done" => ~o.capture_active

\* a run of 16 ns was stopped between its ticks, after its first samples, and
\* ended at the next tick, before its duration had passed
C17_Witness ==
    \E k \in DOMAIN requests : \E i \in DOMAIN runs :
        /\ requests[k].op = "stop_capture"
        /\ AloneAt(requests[k], i)
        /\ runs[i].pc = "done"
        /\ requests[k].t < runs[i].due
        /\ runs[i].due - runs[i].start_time < runs[i].duration_ns
        /\ requests[k].total_samples >= 1
        /\ Len(osc[1].data[OutputD]) = requests[k].total_samples

-----------------------------------------------------------------------------
(* C18: the end of a run, under SpecSample *)

\* the first tick of a run of duration_ns at which the time elapsed since its
\* start is >= duration_ns, as time since the start: period * ceil(duration / period)
FirstTickAtOrAfter(duration_ns, period) ==
    period * ((duration_ns + period - 1) \div period)

\* C18: run(D) exits at the first tick at which the elapsed virtual time is
\* >= D (no stop is requested here), leaving capture_active false: a run is
\* never waiting for a tick later than that one, and a finished run ended on it
C18_ExitsAtFirstTick ==
    \A s \in DOMAIN osc : \A i \in OscRuns(s) :
        Cardinality(OscRuns(s)) = 1
        => LET r == runs[i]
               last == r.start_time
                         + FirstTickAtOrAfter(r.duration_ns, EffectivePeriod(osc[s]))
           IN  /\ r.due <= last
               /\ r.pc = "done" => (r.due = last /\ ~osc[s].capture_active)

-----------------------------------------------------------------------------
(* C19: SimulationBackend.run, under SpecScope *)

\* the run tasks started for a slot at time t with the given duration
TasksOf(rs, slot, t, duration_ns) ==
    {j \in DOMAIN rs : /\ rs[j].kind /= "backend" /\ rs[j].slot = slot
                        /\ rs[j].start_time = t /\ rs[j].duration_ns = duration_ns}

\* the calls of backend.run made at time t with the given duration
BackendRuns(rs, t, duration_ns) ==
    {k \in DOMAIN rs : /\ rs[k].kind = "backend"
                        /\ rs[k].start_time = t /\ rs[k].duration_ns = duration_ns}

\* backend.run i returns in this step
RunReturns(i) ==
    /\ runs[i].kind = "backend"
    /\ runs[i].pc = "wait"
    /\ runs'[i].pc = "done"

\* C19: backend.run(D) starts one task per simulator, each with duration D;
\* it returns exactly D after it was called, whatever the state of those
\* tasks, and what it returns has one entry per simulator: for an oscilloscope
\* the samples each of its channels holds at that moment, for a CloudCompile
\* its register state
C19_RunCollectsAll ==
    [][ \A i \in DOMAIN runs' :
          /\ runs'[i].kind = "backend"
             => \A s \in DOMAIN simulators :
                  Cardinality(TasksOf(runs', s, runs'[i].start_time,
                                      runs'[i].duration_ns))
                    = Cardinality(BackendRuns(runs', runs'[i].start_time,
                                              runs'[i].duration_ns))
          /\ (i \in DOMAIN runs /\ RunReturns(i))
             => /\ now = runs[i].start_time + runs[i].duration_ns
                /\ UNCHANGED <<osc, cc, simulators>>
                /\ \A j \in DOMAIN runs \ {i} : runs'[j] = runs[j]
                /\ DOMAIN CollectData = DOMAIN simulators
                /\ \A s \in DOMAIN simulators :
                      IF simulators[s] = "Oscilloscope"
                      THEN \A ch \in Range(OscChannels(config, osc[s], s)) :
                             /\ ch \in DOMAIN CollectData[s]
                             /\ CollectData[s][ch].sample_count
                                  = IF ch \in DOMAIN osc[s].data
                                    THEN Len(osc[s].data[ch]) ELSE 0
                      ELSE CollectData[s].applied_crs = cc[s].applied_crs ]_vars

\* backend.run(16) has returned at t = 16 while the oscilloscope's task, which
\* has taken samples, is still waiting for its next tick
C19_Witness ==
    \E i, j \in DOMAIN runs :
        /\ runs[i].kind = "backend" /\ runs[i].pc = "done"
        /\ runs[i].duration_ns = 16
        /\ runs[j].kind = "osc" /\ runs[j].pc = "wait"
        /\ runs[j].start_time = runs[i].start_time
        /\ now = runs[i].start_time + 16
        /\ Len(RoutedSamples(osc)) >= 2
        /\ \E k \in DOMAIN runs : runs[k].kind = "cc" /\ runs[k].slot = 2

-----------------------------------------------------------------------------
(* C20: the configuration object, under SpecBind *)

\* C20: no operation mutates the configuration object: the slot settings, their
\* channel lists and control-register mappings and the routing list are, after
\* any sequence of operations, what they were before setup
C20_ConfigNeverMutated == config = CaptureConfig(Some(<<OutputD>>))

-----------------------------------------------------------------------------
(* C21: the writers of the device's Control ports, under SpecTwin.  A      *)
(* simulator records in applied_crs every Control port it has written.     *)

\* C21: no device Control register is written by the models of two different
\* slots, during setup or any later register write
C21_OneWriterPerControl ==
    \A s1, s2 \in DOMAIN cc :
        s1 /= s2 => DOMAIN cc[s1].applied_crs \cap DOMAIN cc[s2].applied_crs = {}

-----------------------------------------------------------------------------
(* C22, C23, C28: setup and the routing matrix, under SpecRoute *)

\* the configured slots whose instrument type is in the registry
KnownSlots == {n \in DOMAIN config.slots : config.slots[n].instrument \in SIMULATOR_REGISTRY}

\* C22: setup() with a slot whose instrument type is not in the registry does
\* not fail; once it has completed, that slot has no model and no register
\* bank, and every other configured slot has its model, of its instrument
\* type, and its bank
C22_UnknownTypeSkipped ==
    /\ setup.pc /= "raised"
    /\ setup.complete
       => /\ DOMAIN simulators = KnownSlots
          /\ DOMAIN slots = KnownSlots
          /\ DOMAIN cc \cup DOMAIN osc = KnownSlots
          /\ \A n \in KnownSlots :
                /\ simulators[n] = config.slots[n].instrument
                /\ n \in DOMAIN cc <=> config.slots[n].instrument = "CloudCompile"
                /\ n \in DOMAIN osc <=> config.slots[n].instrument = "Oscilloscope"

\* setup has completed on a configuration whose slot 3 has an unknown type,
\* configured between the two known slots
C22_Witness ==
    /\ setup.complete
    /\ 3 \in DOMAIN config.slots
    /\ config.slots[3].instrument \notin SIMULATOR_REGISTRY
    /\ 3 \notin DOMAIN simulators
    /\ 3 \notin DOMAIN slots
    /\ DOMAIN slots = {1, 2}
    /\ slots[2].registers[0] = FULLY_ENABLED

\* the routing matrix that holds one entry per configured connection
MatrixOf(routing) ==
    [k \in {RoutingKey(routing[i].source, routing[i].destination) :
                i \in DOMAIN routing} |->
        routing[CHOOSE i \in DOMAIN routing :
                    /\ RoutingKey(routing[i].source, routing[i].destination) = k
                    /\ \A j \in DOMAIN routing :
                          RoutingKey(routing[j].source, routing[j].destination) = k
                          => j <= i]]

\* C23: once setup() has completed, the routing matrix holds one entry keyed
\* "source->destination" for every configured connection, bound or not, and no
\* later operation (run, set_forge_control, teardown) adds, removes or changes
\* an entry
C23_RoutingMatrixFixed ==
    [][ /\ setup'.complete => routing_matrix' = MatrixOf(config'.routing)
        /\ setup.complete => routing_matrix' = routing_matrix ]_vars

\* setup has completed on a list of four connections of which one could be
\* bound; the backend has since been run, written to and torn down
C23_Witness ==
    /\ setup.complete
    /\ Len(config.routing) = 4
    /\ Cardinality(DOMAIN routing_matrix) = 4
    /\ RoutingKey(Slot2OutD, S_OUT1) \in DOMAIN routing_matrix
    /\ DOMAIN osc[1].external_channels = {InputA}
    /\ \E i \in DOMAIN runs : runs[i].kind = "backend" /\ runs[i].pc = "done"
    /\ \E i \in DOMAIN calls : calls[i].op = "be_forge" /\ calls[i].pc = "done"
    /\ ~osc[1].capture_active

-----------------------------------------------------------------------------
(* C24: the frame of a register write, under Spec *)

\* C24: a set_control_register(S, i, v) that completes changes register i of
\* slot S to v (masked) and nothing else: in the step that applies it, every
\* other register of S and every register of every other slot keeps its value
C24_WriteChangesOneRegister ==
    [][ \A i \in DOMAIN calls' :
            (Ends(i) /\ calls'[i].pc = "done" /\ calls'[i].op = "net_set")
            => /\ slots'[calls'[i].slot].registers[calls'[i].register]
                    = Low32(calls'[i].value)
               /\ \A s \in DOMAIN slots : \A r \in Registers :
                     (s /= calls'[i].slot \/ r /= calls'[i].register)
                     => slots'[s].registers[r] = slots[s].registers[r] ]_vars

\* both slots hold values written by completed calls, in different registers,
\* and slot 1 holds two of them
C24_Witness ==
    /\ DOMAIN slots = {1, 2}
    /\ \E i, j \in DOMAIN calls :
          /\ calls[i].pc = "done" /\ calls[j].pc = "done"
          /\ calls[i].slot = 1 /\ calls[j].slot = 2
          /\ calls[i].register = 1 /\ calls[j].register = 0
          /\ calls[i].returned < calls[j].returned
          /\ slots[1].registers[1] = Low32(calls[i].value)
          /\ slots[1].registers[1] /= Zero
          /\ slots[1].registers[0] = Zero
          /\ slots[2].registers[0] = Low32(calls[j].value)
          /\ slots[2].registers[1] = Zero

-----------------------------------------------------------------------------
(* C25: backend.run called back to back, under SpecAgain (no stop is       *)
(* requested there)                                                        *)

\* C25: the run task left over from an earlier backend.run never stops or
\* shortens a later capture: every later capture that has ended went through its
\* whole duration (it ended because the elapsed time it computed had reached
\* the duration), and took at least floor(D / (P*K)) - 1 samples
C25_SecondRunIsFull ==
    \A s \in DOMAIN osc : \A i \in OscRuns(s) :
        (runs[i].pc = "done" /\ \E j \in OscRuns(s) : j < i)
        => /\ runs[i].current_time_ns - runs[i].start_time >= runs[i].duration_ns
           /\ Cardinality({k \in DOMAIN osc[s].data[OutputD] :
                    /\ osc[s].data[OutputD][k][1] >= runs[i].start_time
                    /\ osc[s].data[OutputD][k][1]
                            <= runs[i].start_time + runs[i].duration_ns})
                >= (runs[i].duration_ns \div EffectivePeriod(osc[s])) - 1

-----------------------------------------------------------------------------
(* C26: set_forge_control among concurrent writes of register 0, under     *)
(* SpecForge                                                               *)

\* C26: set_forge_control changes only bits 31:29 of register 0: the step
\* that applies its write leaves bits 28:0 of register 0 as they were
\* immediately before that step, whatever was written during its delay
C26_ForgeKeepsLowBits ==
    [][ \A i \in DOMAIN calls' :
            (calls'[i].op = "net_forge" /\ WriteApplied(i))
            => slots'[calls'[i].slot].registers[0] \ {31, 30, 29}
                    = slots[calls'[i].slot].registers[0] \ {31, 30, 29}
      ]_vars

-----------------------------------------------------------------------------
(* C27: the passthrough model against the network interface after setup,   *)
(* under SpecTwin                                                          *)

\* C27: once setup() has completed, and before any register is written, every
\* value a passthrough model has applied to the device's Control<i> equals
\* the value get_control_register(S, i) returns for its slot, and the model's
\* is_enabled() equals get_forge_status(S).global_enable
C27_AppliedEqualsBank ==
    (setup.complete /\ calls = <<>>)
    => \A s \in DOMAIN cc :
          /\ \A i \in DOMAIN cc[s].applied_crs :
                cc[s].applied_crs[i] = BankGetRegister(slots[s], i)
          /\ IsEnabled(cc[s]) = GetForgeStatus(slots, s).global_enable

-----------------------------------------------------------------------------
(* C28: the bindings made by setup(), under SpecRoute (whose test body     *)
(* never calls add_external_channel itself)                                *)

\* the models that have add_external_channel
SupportsExternalChannels(instrument) == instrument = "Oscilloscope"

\* the connections of the configuration that call for a binding of channel
\* `port` of the model of slot n
BindingsFor(n, port) ==
    {k \in DOMAIN config.routing :
        LET s == ParseSignalName(config.routing[k].source)
            d == ParseSignalName(config.routing[k].destination)
        IN  /\ s.slot /= None
            /\ d = [slot |-> Some(n), port |-> port]
            /\ s.slot[1] \in DOMAIN simulators
            /\ n \in DOMAIN simulators
            /\ DutHasSignal(dut, s.port)
            /\ SupportsExternalChannels(simulators[n])}

AllPorts == {PortName(dir, ch) : dir \in {S_Out, S_In}, ch \in {"A", "B", "C", "D"}}

\* C28: once setup() has completed, a model has an external channel of a name
\* exactly when some connection whose two ends parse as slot ports names it as
\* destination, both slots have a model, the device has the source signal and
\* the destination model supports external channels; the channel is bound to
\* the device signal named by the source port (of the last such connection).
\* Every other connection leaves no binding, and setup() does not fail.
C28_BindingExactlyWhen ==
    /\ setup.pc /= "raised"
    /\ setup.complete
       => \A n \in DOMAIN osc :
            /\ DOMAIN osc[n].external_channels
                    = {p \in AllPorts : BindingsFor(n, p) /= {}}
            /\ \A p \in DOMAIN osc[n].external_channels :
                  \E k \in BindingsFor(n, p) :
                      /\ \A j \in BindingsFor(n, p) : j <= k
                      /\ osc[n].external_channels[p] =
                            SignalHandle(ParseSignalName(config.routing[k].source).port)

\* setup() has completed with four connections of which only Slot2OutD ->
\* Slot1InA binds: InputA of the model of slot 1 is the device's OutputD
C28_Witness ==
    /\ setup.complete
    /\ Len(config.routing) = 4
    /\ BindingsFor(1, InputA) = {1}
    /\ DOMAIN osc[1].external_channels = {InputA}
    /\ osc[1].external_channels[InputA] = SignalHandle(OutputD)

-----------------------------------------------------------------------------
(* C29: the identifiers setup() has parsed, under SpecParse *)

\* the identifiers of exactly the form Slot<N><Out|In><Letter>, N written in
\* nd digits
ExactSlotForm(signal, nd, direction, channel) ==
    /\ Len(signal) = Len(S_Slot) + nd + Len(direction) + 1
    /\ signal = S_Slot \o SubSeq(signal, Len(S_Slot) + 1, Len(S_Slot) + nd)
                       \o direction \o <<channel>>
    /\ \A k \in Len(S_Slot) + 1 .. Len(S_Slot) + nd : signal[k] \in DigitChars
    /\ IntOfDigits(SubSeq(signal, Len(S_Slot) + 1, Len(S_Slot) + nd)) > 0

\* what the parse of an identifier is to be: (N, port) for the exact form with
\* N positive, (None, the identifier) for every other string
ExactParse(signal) ==
    IF \E nd \in 1 .. Len(signal), direction \in {S_Out, S_In},
            channel \in {"A", "B", "C", "D"} :
                ExactSlotForm(signal, nd, direction, channel)
    THEN LET f == CHOOSE f \in (1 .. Len(signal)) \X {S_Out, S_In}
                                    \X {"A", "B", "C", "D"} :
                        ExactSlotForm(signal, f[1], f[2], f[3])
         IN  [slot |-> Some(IntOfDigits(SubSeq(signal, Len(S_Slot) + 1,
                                               Len(S_Slot) + f[1]))),
              port |-> PortName(f[2], f[3])]
    ELSE [slot |-> None, port |-> signal]

\* C29: for every identifier a completed setup() has parsed,
\* _parse_signal_name returned (N, port) only for the exact form
\* Slot<N><Out|In><Letter> with N positive, and (None, the identifier
\* unchanged) for every other string
C29_ExactFormOnly ==
    setup.complete
    => \A k \in DOMAIN config.routing :
          /\ ParseSignalName(config.routing[k].source)
                = ExactParse(config.routing[k].source)
          /\ ParseSignalName(config.routing[k].destination)
                = ExactParse(config.routing[k].destination)

-----------------------------------------------------------------------------
(* C30: the access log of a bank, under SpecBits *)

\* C30: in every step, the access log of a bank that exists before and after
\* keeps the entries it had, unaltered and in order; a step that applies a
\* write to a slot appends exactly one entry, for the written register, whose
\* old value is the register's value before the step and whose new value is
\* the register's (masked) value after it
C30_LogFaithful ==
    [][ /\ \A s \in DOMAIN slots \cap DOMAIN slots' :
              /\ Len(slots'[s].access_log) >= Len(slots[s].access_log)
              /\ SubSeq(slots'[s].access_log, 1, Len(slots[s].access_log))
                    = slots[s].access_log
        /\ \A i \in DOMAIN calls' :
              (WriteApplied(i) /\ calls'[i].slot \in DOMAIN slots)
              => LET c == calls'[i]
                     log == slots[c.slot].access_log
                     log2 == slots'[c.slot].access_log
                 IN  /\ Len(log2) = Len(log) + 1
                     /\ log2[Len(log2)].register = c.register
                     /\ log2[Len(log2)].old_value = slots[c.slot].registers[c.register]
                     /\ log2[Len(log2)].new_value = slots'[c.slot].registers[c.register]
      ]_vars

-----------------------------------------------------------------------------
(* C31: the busy flag among overlapping writes, under Spec *)

\* the calls of NetworkCRInterface.set_control_register that have started and
\* not yet finished: they are waiting in their network delay
WritesInFlight == {i \in DOMAIN calls : calls[i].op = "net_set" /\ calls[i].pc = "delay"}

\* C31: network_busy is true in exactly the states where at least one
\* set_control_register call has started and not yet completed or failed
C31_BusyIffInFlight ==
    network_busy <=> WritesInFlight /= {}

-----------------------------------------------------------------------------
(* C32: a write with a register index outside 0..15, under SpecErrors *)

\* C32: NetworkCRInterface.set_control_register on a configured slot with a
\* register index outside 0..15 fails and leaves the interface as it was
\* before the call: register values, access log, operation count and busy
\* flag.  Stated for the calls that run from entry to failure in one step
\* (delay 0), where "before the call" is the state before the step.
C32_OutOfRangeLeavesInterface ==
    [][ \A i \in DOMAIN calls' \ DOMAIN calls :
            ( /\ Ends(i)
              /\ calls'[i].op = "net_set"
              /\ calls'[i].slot \in DOMAIN slots
              /\ ~RegInRange(calls'[i].register) )
            => /\ calls'[i].pc = "raised"
               /\ slots' = slots
               /\ total_network_ops' = total_network_ops
               /\ network_busy' = network_busy ]_vars

-----------------------------------------------------------------------------
(* C33: the timestamps of one run on an empty buffer, under SpecSample *)

\* C33: every sample captured by run(D) started at virtual time t0 has a
\* timestamp t with t0 <= t < t0 + D
C33_SamplesBeforeEnd ==
    \A s \in DOMAIN osc :
        Cardinality(OscRuns(s)) = 1
        => LET r == runs[CHOOSE i \in OscRuns(s) : TRUE]
               samples == osc[s].data[OutputD]
           IN  \A k \in DOMAIN samples :
                  /\ r.start_time <= samples[k][1]
                  /\ samples[k][1] < r.start_time + r.duration_ns

-----------------------------------------------------------------------------
(* C34: apply_control_registers during setup(), under SpecApply *)

\* the registers the model of slot s has applied, before and after the step
AppliedBefore(s) == IF s \in DOMAIN cc THEN cc[s].applied_crs ELSE <<>>
AppliedAfter(s) == cc'[s].applied_crs

\* self.control_registers of the model of slot s after the step
ModelRegistersAfter(s) ==
    IF cc'[s].aliased THEN config'.slots[s].settings.control_registers[1]
    ELSE cc'[s].control_registers

-----------------------------------------------------------------------------
(* C35: the handshake flags of the passthrough model, under SpecFlags *)

\* C35: in every state, is_enabled() of a passthrough model is true iff the
\* most recent value written to register 0 through the model (by
\* apply_control_registers or set_control_register) has bits 31, 30 and 29
\* all set; loader_done is constantly true; hence a write to registers 1..15
\* never changes the flags
C35_EnabledIffLastCR0 ==
    \A s \in DOMAIN cc :
        /\ cc[s].forge_state.loader_done
        /\ IsEnabled(cc[s])
              <=> /\ 0 \in DOMAIN cc[s].applied_crs
                  /\ {31, 30, 29} \subseteq cc[s].applied_crs[0]
        /\ 0 \in DOMAIN cc[s].applied_crs
              => /\ dut.control[0] = cc[s].applied_crs[0]
                 /\ cc[s].forge_state.forge_ready = TestBit(dut.control[0], 31)
                 /\ cc[s].forge_state.user_enable = TestBit(dut.control[0], 30)
                 /\ cc[s].forge_state.clk_enable = TestBit(dut.control[0], 29)

\* the model is enabled by a write of register 0 and stays so after a later
\* write of register 15 with a value whose three top bits are clear
C35_Witness ==
    /\ 1 \in DOMAIN cc
    /\ IsEnabled(cc[1])
    /\ \E i, j \in DOMAIN calls :
          /\ calls[i].pc = "done" /\ calls[i].register = 0
          /\ calls[j].pc = "done" /\ calls[j].op = "be_set"
          /\ calls[j].register = 15 /\ calls[j].value = Wide33
          /\ calls[j].returned > calls[i].returned

-----------------------------------------------------------------------------
(* C36: the status registers read from the device, under SpecStatus *)

\* C36: whenever status registers have been read, get_status_registers has
\* returned a value for each of the registers 0..15, with 0 for a register
\* whose device signal is missing or whose read fails, and the read has not
\* failed
C36_AllSixteenReported ==
    \A i \in DOMAIN calls :
        calls[i].op = "be_status"
        => /\ calls[i].pc = "done"
           /\ DOMAIN GetStatusRegisters(dut) = Registers
           /\ \A r \in Registers :
                 GetStatusRegisters(dut)[r] =
                    IF r \in DOMAIN dut.status /\ dut.status[r].readable
                    THEN dut.status[r].value ELSE Zero

-----------------------------------------------------------------------------
(* C37: teardown() while the models run, under SpecTeardown *)

\* C37: after teardown() every oscilloscope has capture_active false, and a
\* run task that was suspended between ticks when teardown() was called ends
\* at its next tick, within one samplePeriod * decimation of the call, with no
\* sample appended after the call; teardown itself has no failing path, with
\* a CloudCompile model (which has no stop_capture) among the simulators
C37_TeardownStopsRuns ==
    /\ script = 1 => \A s \in DOMAIN osc : ~osc[s].capture_active
    /\ script = 1
          => {requests[k].slot : k \in {j \in DOMAIN requests :
                                            requests[j].op = "teardown"}} = DOMAIN osc
    /\ \A k \in DOMAIN requests :
          requests[k].op = "teardown"
          => \A i \in requests[k].suspended \cap OscRuns(requests[k].slot) :
                   LET q == requests[k]
                       r == runs[i]
                       o == osc[q.slot]
                   IN  /\ q.t <= r.due
                       /\ r.due <= q.t + EffectivePeriod(o)
                       /\ (r.due - r.start_time) % EffectivePeriod(o) = 0
                       /\ o.total_samples = q.total_samples
                       /\ Len(o.data[OutputD]) = q.total_samples

\* teardown() was called between two ticks of a run that had taken samples;
\* the run ended at its next tick, before its duration had passed, with the
\* samples it had at the call
C37_Witness ==
    \E k \in DOMAIN requests : \E i \in DOMAIN runs :
        /\ requests[k].op = "teardown"
        /\ i \in requests[k].suspended \cap OscRuns(requests[k].slot)
        /\ runs[i].pc = "done"
        /\ requests[k].t < runs[i].due
        /\ runs[i].due - runs[i].start_time < runs[i].duration_ns
        /\ requests[k].total_samples >= 1
        /\ Len(osc[1].data[OutputD]) = requests[k].total_samples
        /\ 2 \in DOMAIN cc

-----------------------------------------------------------------------------
(* C38: verify_incrementing, under SpecVerify (the buffer only grows there) *)

\* the values the buffer of a channel held when it had n samples
ValuesAt(o, channel, n) == [k \in 1 .. n |-> o.data[channel][k][2]]

\* the window start..start+count-1 (indexed from 0) lies within the values,
\* and each successive pair of it satisfies next = (current + 1) mod 2^b, b
\* the bit length of the largest value of the window up to that pair
WindowIncrements(values, start, count) ==
    /\ start + count <= Len(values)
    /\ \A i \in 0 .. count - 2 :
          LET largest == Max({values[k] : k \in start + 1 .. start + i + 2})
          IN  values[start + i + 2]
                = (values[start + i + 1] + 1) % (2 ^ BitLength(largest))

\* C38: verify_incrementing(channel, start, count) returns true iff the
\* buffer holds the whole window and each successive pair of samples of the
\* window satisfies next = (current + 1) mod 2^b, b the bit length of the
\* largest value among the samples of the window seen so far
C38_VerifyIncrementing ==
    \A k \in DOMAIN requests :
        requests[k].op = "verify_incrementing"
        => LET q == requests[k]
           IN  q.result = Some(WindowIncrements(
                                ValuesAt(osc[q.slot], q.channel_name, q.total_samples),
                                q.args[1], q.args[2]))

-----------------------------------------------------------------------------
(* C39: a bound name that is also a signal of the device, under SpecPriority *)

\* C39: when a channel name has an external binding and the device has a
\* signal of the same name, every sample of the channel taken after the
\* binding was added holds the value of the bound signal at that time, the
\* one of the newest binding, and not the device's own signal of that name
C39_ExternalFirst ==
    [][ \A s \in DOMAIN osc \cap DOMAIN osc' :
          \A ch \in DOMAIN osc[s].external_channels :
              (DutHasSignal(dut, ch) /\ ch \in DOMAIN osc[s].data)
              => \A k \in Len(osc[s].data[ch]) + 1 .. Len(osc'[s].data[ch]) :
                    osc'[s].data[ch][k] =
                        <<now, ReadSignalValue(dut, osc[s].external_channels[ch])>>
      ]_vars

\* the buffer of OutputD holds a sample of the device's OutputD (200), then
\* one of OutputA (100) taken after OutputD was bound to it, then one of
\* OutputB (50) taken after it was bound again
C39_Witness ==
    /\ 1 \in DOMAIN osc
    /\ OutputD \in DOMAIN osc[1].external_channels
    /\ Len(osc[1].data[OutputD]) = 3
    /\ osc[1].data[OutputD][1][2] = 200
    /\ osc[1].data[OutputD][2][2] = 100
    /\ osc[1].data[OutputD][3][2] = 50
    /\ Len(requests) = 2

-----------------------------------------------------------------------------
(* SpecStats: the network interface alone, with writes on a configured and  *)
(* on an unknown slot, to a valid and to an invalid register, reads, FORGE *)
(* writes and status reads, and add_slot at any time.                       *)

StatsSlotInputs == {1, 3}
StatsRegInputs == {0, 16}
StatsDelayInputs == {Some(0), Some(50)}
StatsFlags == <<TRUE, FALSE, FALSE>>

InitStats == InitState(EmptyConfig, FullDut)

NextStats ==
    \/ \E iv \in ErrorInitialInputs : AddSlot(1, iv)
    \/ \E s \in StatsSlotInputs, r \in StatsRegInputs, d \in StatsDelayInputs :
            Issue("net_set", s, r, USER_ENABLED, NoFlags, d)
    \/ \E s \in StatsSlotInputs, r \in StatsRegInputs :
            Issue("net_get", s, r, Zero, NoFlags, None)
    \/ \E s \in StatsSlotInputs, d \in StatsDelayInputs :
            Issue("net_forge", s, 0, Zero, StatsFlags, d)
    \/ \E s \in StatsSlotInputs : Issue("net_status", s, 0, Zero, NoFlags, None)
    \/ \E i \in DOMAIN calls : Fire(i)
    \/ Advance

SpecStats == InitStats /\ [][NextStats]_vars

\* the calls started by this step that enter set_control_register (directly or
\* through set_forge_control) on a slot that was configured when they started
WritesIssued ==
    {i \in DOMAIN calls' \ DOMAIN calls :
        calls'[i].op \in NetOps /\ calls'[i].slot \in DOMAIN slots}

-----------------------------------------------------------------------------
(* C40: total_operations of get_stats, under SpecStats                     *)

\* C40: every step changes total_operations by exactly the number of
\* set_control_register calls it starts on a configured slot: a write adds one
\* whether or not another is in flight, and a read, add_slot, the completion
\* of a write or a call rejected for an unknown slot leaves the count alone,
\* so that the count is never decremented
C40_CountsIssuedWrites ==
    [][ total_network_ops' = total_network_ops + Cardinality(WritesIssued) ]_vars

\* two writes were started on slot 1, the second while the first was in
\* flight, both have ended, and the count is 2
C40_Witness ==
    /\ Len(calls) >= 2
    /\ calls[1].op = "net_set" /\ calls[1].slot = 1 /\ calls[1].pc = "done"
    /\ calls[2].op = "net_set" /\ calls[2].slot = 1 /\ calls[2].pc = "done"
    /\ calls[2].issued < calls[1].returned
    /\ calls[1].issued < calls[1].returned
    /\ total_network_ops = 2

====
